---- MODULE Spec2Model ----
(***************************************************************************)
(* Ariane: webhook-driven CI orchestration.  The handlers are stateless;   *)
(* the state of the model is the forge side (workflow runs at the PR head  *)
(* SHA, PR comments, the clock) plus the record of the delivery in flight: *)
(* the configuration it loaded, the inputs it saw, the forge write         *)
(* requests it issued in order, and what the handler returned.             *)
(***************************************************************************)
EXTENDS Integers, Sequences, FiniteSets, TLC

VARIABLES
    runs,       \* forge: workflow file -> runs at the head SHA, latest first
    comments,   \* forge: PR comments, oldest first: [body, created]
    now,        \* forge clock, in minutes
    delivery,   \* the delivery in flight (NoDelivery when none)
    subtasks,   \* rerun goroutines started by the delivery and not yet run
    asyncReqs,  \* forge requests issued by those goroutines, in order
    inflight,   \* concurrent chainer deliveries: id -> [pc, wf, reqs]
    failedRun,  \* the run under retry: [wf, attempt]
    rerunCount, \* rerun-failed-jobs requests issued for that run
    rerunCfg    \* rerun configuration of the repository under retry

vars == <<runs, comments, now, delivery, subtasks, asyncReqs, inflight,
          failedRun, rerunCount, rerunCfg>>

-----------------------------------------------------------------------------
(* Bounds of the model *)

\* Workflow runs the forge keeps for the PR head.
MaxRecords == 2
\* Largest rerun.max-retries of the configurations explored.
MaxRetriesCfg == 2
\* Minutes between two observations of the clock.
TickMinutes == 5

-----------------------------------------------------------------------------
(* Strings and their structure.  TLC strings are atomic, so a string that  *)
(* the code searches is paired with its parts.                             *)

Workflows == {"a.yaml", "b.yaml", "c.yaml"}

\* event.GetWorkflow().GetPath() of a workflow file
WorkflowPath(w) == ".github/workflows/" \o w

Paths == {WorkflowPath(w) : w \in Workflows}

\* path segments, for filepath.Base and strings.Contains
PathParts(p) ==
    LET w == CHOOSE x \in Workflows : WorkflowPath(x) = p
    IN  <<".github", "workflows", w>>

\* bodies of the '/' comments delivered to the comment handler
CommentBodies == {"/default", "/deploy", "/nope"}

\* words of a comment body
BodyWords(b) ==
    CASE b = "/deploy now" -> <<"/deploy", "now">>
      [] b = "  /default" -> <<"/default">>
      [] b = "\n/nope" -> <<"/nope">>
      [] b = "please /default" -> <<"please", "/default">>
      [] b = "/run --focus" -> <<"/run", "--focus">>
      [] b = "/run a\"b" -> <<"/run", "a\"b">>
      [] b = "/run <x>" -> <<"/run", "<x>">>
      [] OTHER -> <<b>>

SeqToSet(s) == {s[i] : i \in 1..Len(s)}

-----------------------------------------------------------------------------
(* Workflow runs as the forge reports them *)

Run(status, conclusion) == [status |-> status, conclusion |-> conclusion]

RunKinds == {Run("completed", "success"), Run("completed", "skipped"),
             Run("completed", "failure"), Run("completed", "cancelled"),
             Run("in_progress", "")}

NoRuns == [w \in Workflows |-> <<>>]

RECURSIVE SumLen(_, _)
SumLen(f, S) ==
    IF S = {} THEN 0
    ELSE LET x == CHOOSE y \in S : TRUE IN Len(f[x]) + SumLen(f, S \ {x})

Records == SumLen(runs, Workflows)

-----------------------------------------------------------------------------
(* Repository configuration (.github/ariane-config.yaml) *)

TriggerConfig(wfs, deps) == [workflows |-> wfs, dependsOn |-> deps]

\* /default owns two workflows; /deploy depends on two triggers, each
\* owning one workflow
Triggers ==
    [p \in {"/default", "/test", "/lint", "/deploy"} |->
        CASE p = "/default" -> TriggerConfig(<<"a.yaml", "b.yaml">>, <<>>)
          [] p = "/test"    -> TriggerConfig(<<"a.yaml">>, <<>>)
          [] p = "/lint"    -> TriggerConfig(<<"b.yaml">>, <<>>)
          [] p = "/deploy"  -> TriggerConfig(<<"c.yaml">>, <<"/test", "/lint">>)]

NoTriggers == [p \in {} |-> TriggerConfig(<<>>, <<>>)]

PathsConfig(re, ignore) == [pathsRegex |-> re, pathsIgnoreRegex |-> ignore]

\* workflows: section; b.yaml ignores documentation changes
DocsIgnored == [w \in {"b.yaml"} |-> PathsConfig("", "^docs/")]

NoWorkflowsSection == [w \in {} |-> PathsConfig("", "")]

RerunConfig(m, wfs, excl) ==
    [present |-> TRUE, maxRetries |-> m, workflows |-> wfs,
     excludeWorkflows |-> excl]

\* arianeConfig.RerunConfig == nil
NoRerunConfig ==
    [present |-> FALSE, maxRetries |-> 0, workflows |-> <<>>,
     excludeWorkflows |-> <<>>]

Stage(wfs, command) == [workflows |-> wfs, command |-> command]

StagesConfig(label, stages) ==
    [present |-> TRUE, label |-> label, stages |-> stages]

\* arianeConfig.StagesConfig == nil
NoStagesConfig == [present |-> FALSE, label |-> "", stages |-> <<>>]

ArianeConfig(triggers, wfsection, feedback, rerun, stages) ==
    [triggers |-> triggers, workflows |-> wfsection,
     verbose |-> feedback[1], workflowsReport |-> feedback[2],
     rerun |-> rerun, stagesConfig |-> stages, allowedTeams |-> <<>>]

\* the same configuration with an allowed-teams list
WithAllowedTeams(c, teams) == [c EXCEPT !.allowedTeams = teams]

NoConfig ==
    ArianeConfig(NoTriggers, NoWorkflowsSection, <<FALSE, FALSE>>,
                 NoRerunConfig, NoStagesConfig)

GetVerbose(c) == c.verbose

GetWorkflowsReport(c) == c.workflowsReport

GetReportAllWorkflows(c) == GetVerbose(c) /\ GetWorkflowsReport(c)

-----------------------------------------------------------------------------
(* Forge calls.  A delivery is handled against the forge state, with the   *)
(* set of calls that fail during it as an input.                           *)

Call(op, target) == [op |-> op, target |-> target]

Failed(faults, op, target) == Call(op, target) \in faults

\* a regular expression against a string: a literal phrase is found
\* anywhere in the body (regexp.MatchString is not anchored)
RegexMatch(phrase, body) == phrase \in SeqToSet(BodyWords(body))

\* paths-regex / paths-ignore-regex against a changed file
PathRegexMatch(re, f) ==
    CASE re = "^docs/" -> f = "docs/x.md"
      [] re = "^src/"  -> f = "src/a.go"
      [] OTHER         -> FALSE

-----------------------------------------------------------------------------
(* Path-change evaluator (internal/config) *)

IsWorkflowFile(f) == f \in Paths

\* the workflow has no entry in the workflows: section
ShouldRunOnlyWorkflows(w, files) ==
    \E i \in 1..Len(files) :
        \/ ~IsWorkflowFile(files[i])
        \/ files[i] = WorkflowPath(w)

\* variant: with only an ignore regex, any file outside it counts
ShouldRunWorkflowAnyFile(c, w, files) ==
    LET e == c.workflows[w] IN
    IF e.pathsRegex = "" /\ e.pathsIgnoreRegex # ""
    THEN \E i \in 1..Len(files) :
            ~PathRegexMatch(e.pathsIgnoreRegex, files[i])
    ELSE Len(files) > 0

\* the workflow has an entry in the workflows: section; the file of another
\* workflow never counts as a change for this one (Test_ShouldRunWorkflow)
ShouldRunWorkflow(c, w, files) ==
    LET e == c.workflows[w] IN
    CASE e.pathsRegex # "" /\ e.pathsIgnoreRegex # "" -> Len(files) > 0
      [] e.pathsRegex # "" /\ e.pathsIgnoreRegex = "" ->
            \E i \in 1..Len(files) :
                \/ PathRegexMatch(e.pathsRegex, files[i])
                \/ files[i] = WorkflowPath(w)
      [] e.pathsRegex = "" /\ e.pathsIgnoreRegex # "" ->
            \E i \in 1..Len(files) :
                /\ ~PathRegexMatch(e.pathsIgnoreRegex, files[i])
                /\ \/ ~IsWorkflowFile(files[i])
                   \/ files[i] = WorkflowPath(w)
      [] OTHER -> ShouldRunOnlyWorkflows(w, files)

-----------------------------------------------------------------------------
(* Workflow decision engine (WorkflowProcessor) *)

Skip(skip, rerun) == [skip |-> skip, rerun |-> rerun]

\* variant that treats only a successful last run as completed
shouldSkipWorkflowSuccessOnly(hist, w, faults) ==
    IF Failed(faults, "list-runs", w) THEN Skip(FALSE, FALSE)
    ELSE IF Len(hist[w]) > 0 /\ hist[w][1] = Run("completed", "success")
    THEN Skip(TRUE, FALSE)
    ELSE Skip(FALSE, FALSE)

\* variant: a workflow whose run-history query fails is taken for completed
shouldSkipWorkflowOnQueryFailure(hist, w, faults) ==
    IF Failed(faults, "list-runs", w) THEN Skip(TRUE, FALSE)
    ELSE IF /\ Len(hist[w]) > 0
            /\ hist[w][1].status = "completed"
            /\ hist[w][1].conclusion \in {"success", "skipped", "failure"}
    THEN Skip(TRUE, hist[w][1].conclusion = "failure")
    ELSE Skip(FALSE, FALSE)

\* variant that skips a failed last run without rerunning its failed jobs
shouldSkipWorkflowNoRerun(hist, w, faults) ==
    IF Failed(faults, "list-runs", w) THEN Skip(FALSE, FALSE)
    ELSE IF /\ Len(hist[w]) > 0
            /\ hist[w][1].status = "completed"
            /\ hist[w][1].conclusion \in {"success", "skipped", "failure"}
    THEN Skip(TRUE, FALSE)
    ELSE Skip(FALSE, FALSE)

\* rerun is TRUE when the rerun goroutine was started for the last run
shouldSkipWorkflow(hist, w, faults) ==
    IF Failed(faults, "list-runs", w) THEN Skip(FALSE, FALSE)
    ELSE IF Len(hist[w]) > 0
    THEN LET lastRun == hist[w][1] IN
         IF lastRun.status = "completed"
         THEN IF lastRun.conclusion \in {"success", "skipped"}
              THEN Skip(TRUE, FALSE)
              ELSE IF lastRun.conclusion = "failure"
                   THEN Skip(TRUE, TRUE)
                   ELSE Skip(FALSE, FALSE)
         ELSE Skip(FALSE, FALSE)
    ELSE Skip(FALSE, FALSE)

shouldRunWorkflow(c, w, files) ==
    IF w \in DOMAIN c.workflows
    THEN ShouldRunWorkflow(c, w, files)
    ELSE ShouldRunOnlyWorkflows(w, files)

Result(reqs, err) == [reqs |-> reqs, err |-> err]

triggerWorkflow(w, faults) ==
    Result(<<Call("dispatch", w)>>, Failed(faults, "dispatch", w))

markWorkflowAsSkipped(w, faults) ==
    IF Failed(faults, "get-workflow", w) THEN Result(<<>>, TRUE)
    ELSE Result(<<Call("check-run", w)>>, Failed(faults, "check-run", w))

WorkflowStatus(w, status) == [name |-> w, status |-> status]

\* variant: a workflow the changed files do not call for is dispatched all
\* the same and marked skipped as well
processWorkflowBoth(c, hist, w, files, faults) ==
    [reqs |-> <<Call("dispatch", w), Call("check-run", w)>>,
     statuses |-> <<>>, spawn |-> <<>>]

\* statuses: the status entry returned, if any; spawn: the run whose failed
\* jobs are being rerun by a goroutine, if any
Processed(reqs, statuses, spawn) ==
    [reqs |-> reqs, statuses |-> statuses, spawn |-> spawn]

\* variant: a status entry is returned whatever the outcome and the
\* feedback options
processWorkflowAlwaysReport(c, hist, w, files, faults) ==
    LET skip == shouldSkipWorkflow(hist, w, faults) IN
    IF skip.skip
    THEN [reqs |-> <<>>,
          statuses |-> <<WorkflowStatus(w, "already completed")>>,
          spawn |-> IF skip.rerun THEN <<w>> ELSE <<>>]
    ELSE IF shouldRunWorkflow(c, w, files)
    THEN LET r == triggerWorkflow(w, faults) IN
         [reqs |-> r.reqs,
          statuses |-> <<WorkflowStatus(w, IF r.err THEN "failed"
                                           ELSE "triggered")>>,
          spawn |-> <<>>]
    ELSE LET r == markWorkflowAsSkipped(w, faults) IN
         [reqs |-> r.reqs,
          statuses |-> <<WorkflowStatus(w, IF r.err
                                           THEN "failed to mark as skipped"
                                           ELSE "skipped")>>,
          spawn |-> <<>>]

processWorkflow(c, hist, w, files, faults) ==
    LET skip == shouldSkipWorkflow(hist, w, faults)
        report(st) == IF GetReportAllWorkflows(c)
                      THEN <<WorkflowStatus(w, st)>> ELSE <<>>
    IN  IF skip.skip
        THEN Processed(<<>>, report("already completed"),
                       IF skip.rerun THEN <<w>> ELSE <<>>)
        ELSE IF shouldRunWorkflow(c, w, files)
        THEN LET r == triggerWorkflow(w, faults) IN
             IF r.err
             THEN Processed(r.reqs, <<WorkflowStatus(w, "failed")>>, <<>>)
             ELSE Processed(r.reqs, report("triggered"), <<>>)
        ELSE LET r == markWorkflowAsSkipped(w, faults) IN
             IF r.err
             THEN Processed(r.reqs,
                            <<WorkflowStatus(w, "failed to mark as skipped")>>,
                            <<>>)
             ELSE Processed(r.reqs, report("skipped"), <<>>)

Dependency(canRun, inProgress, err) ==
    [canRun |-> canRun, inProgress |-> inProgress, err |-> err]

\* variant: the workflows of the dependency are examined last to first
RECURSIVE CheckDependencyWorkflowsLastFirst(_, _, _)
CheckDependencyWorkflowsLastFirst(hist, wfs, faults) ==
    IF wfs = <<>> THEN Dependency(TRUE, FALSE, FALSE)
    ELSE LET w == wfs[Len(wfs)] IN
         IF Failed(faults, "list-runs", w)
         THEN Dependency(FALSE, FALSE, TRUE)
         ELSE IF Len(hist[w]) = 0
         THEN Dependency(FALSE, FALSE, FALSE)
         ELSE IF hist[w][1].conclusion \notin {"success", "skipped"}
         THEN Dependency(FALSE, hist[w][1].status = "in_progress", FALSE)
         ELSE CheckDependencyWorkflowsLastFirst(hist,
                  SubSeq(wfs, 1, Len(wfs) - 1), faults)

\* the loop of checkTriggerDependency over the dependency's workflows
RECURSIVE CheckDependencyWorkflows(_, _, _)
CheckDependencyWorkflows(hist, wfs, faults) ==
    IF wfs = <<>> THEN Dependency(TRUE, FALSE, FALSE)
    ELSE LET w == Head(wfs) IN
         IF Failed(faults, "list-runs", w)
         THEN Dependency(FALSE, FALSE, TRUE)
         ELSE IF Len(hist[w]) = 0
         THEN Dependency(FALSE, FALSE, FALSE)
         ELSE LET latestRun == hist[w][1] IN
              IF latestRun.conclusion # "success"
                 /\ latestRun.conclusion # "skipped"
              THEN Dependency(FALSE, latestRun.status = "in_progress", FALSE)
              ELSE CheckDependencyWorkflows(hist, Tail(wfs), faults)

\* variant that accepts any completed latest run of the dependency
checkTriggerDependencyAnyCompleted(c, hist, dep, faults) ==
    IF dep \notin DOMAIN c.triggers
    THEN Dependency(FALSE, FALSE, TRUE)
    ELSE LET wfs == c.triggers[dep].workflows IN
         IF \E i \in 1..Len(wfs) : Failed(faults, "list-runs", wfs[i])
         THEN Dependency(FALSE, FALSE, TRUE)
         ELSE IF \A i \in 1..Len(wfs) :
                    /\ Len(hist[wfs[i]]) > 0
                    /\ hist[wfs[i]][1].status = "completed"
         THEN Dependency(TRUE, FALSE, FALSE)
         ELSE Dependency(FALSE, FALSE, FALSE)

checkTriggerDependency(c, hist, dep, faults) ==
    IF dep \notin DOMAIN c.triggers
    THEN Dependency(FALSE, FALSE, TRUE)
    ELSE CheckDependencyWorkflows(hist, c.triggers[dep].workflows, faults)

\* the dependency loop of processWorkflowsForTrigger: "" when every
\* dependency passed, otherwise the error returned
RECURSIVE CheckDependencies(_, _, _, _)
CheckDependencies(c, hist, deps, faults) ==
    IF deps = <<>> THEN ""
    ELSE LET d == checkTriggerDependency(c, hist, Head(deps), faults) IN
         IF d.err THEN "failed to check trigger dependency"
         ELSE IF ~d.canRun
         THEN IF d.inProgress THEN "dependency is still in progress"
              ELSE "dependency has not completed successfully"
         ELSE CheckDependencies(c, hist, Tail(deps), faults)

\* variant: the loop ends at the first workflow whose dispatch or marking
\* as skipped failed
RECURSIVE ProcessWorkflowsUntilFailure(_, _, _, _, _)
ProcessWorkflowsUntilFailure(c, hist, wfs, files, faults) ==
    IF wfs = <<>> THEN Processed(<<>>, <<>>, <<>>)
    ELSE LET p == processWorkflow(c, hist, Head(wfs), files, faults)
             q == ProcessWorkflowsUntilFailure(c, hist, Tail(wfs), files,
                                               faults)
         IN  IF \E i \in 1..Len(p.statuses) :
                   p.statuses[i].status \in {"failed",
                                             "failed to mark as skipped"}
             THEN p
             ELSE Processed(p.reqs \o q.reqs, p.statuses \o q.statuses,
                            p.spawn \o q.spawn)

\* the workflow loop of processWorkflowsForTrigger
RECURSIVE ProcessWorkflows(_, _, _, _, _)
ProcessWorkflows(c, hist, wfs, files, faults) ==
    IF wfs = <<>> THEN Processed(<<>>, <<>>, <<>>)
    ELSE LET p == processWorkflow(c, hist, Head(wfs), files, faults)
             q == ProcessWorkflows(c, hist, Tail(wfs), files, faults)
         IN  Processed(p.reqs \o q.reqs, p.statuses \o q.statuses,
                       p.spawn \o q.spawn)

Match(submatch, wfs, deps) ==
    [submatch |-> submatch, workflows |-> wfs, dependsOn |-> deps]

NoMatch == Match(<<>>, <<>>, <<>>)

\* what a handler did: the forge write requests in order, the error it
\* returned ("" for nil), the status entries, the rerun goroutines started
Outcome(reqs, err, statuses, spawn) ==
    [reqs |-> reqs, err |-> err, statuses |-> statuses, spawn |-> spawn]

processWorkflowsForTrigger(c, hist, m, files, faults) ==
    LET gate == CheckDependencies(c, hist, m.dependsOn, faults) IN
    IF gate # "" THEN Outcome(<<>>, gate, <<>>, <<>>)
    ELSE IF Failed(faults, "list-files", "")
    THEN Outcome(IF GetVerbose(c)
                 THEN <<Call("comment", "Failed to retrieve pull request files")>>
                 ELSE <<>>,
                 "failed to retrieve pull request files", <<>>, <<>>)
    ELSE LET p == ProcessWorkflows(c, hist, m.workflows, files, faults) IN
         Outcome(p.reqs \o
                 (IF GetVerbose(c) /\ GetWorkflowsReport(c)
                     /\ Len(p.statuses) > 0
                  THEN <<Call("comment", "## Workflow Status")>>
                  ELSE <<>>),
                 "", p.statuses, p.spawn)

-----------------------------------------------------------------------------
(* Reruns *)

Job(name, conclusion) == [name |-> name, conclusion |-> conclusion]

JobLists == {<<Job("build", "success")>>,
             <<Job("build", "failure")>>,
             <<Job("Commit Status Start", "success"), Job("build", "failure")>>}

\* variant: the failed jobs are rerun whether or not the rerun of the
\* commit-status job succeeded
rerunFailedJobsTaskRegardless(w, jobs, faults) ==
    IF Failed(faults, "list-jobs", w) THEN <<>>
    ELSE IF \E i \in 1..Len(jobs) : jobs[i].name = "Commit Status Start"
    THEN <<Call("rerun-job", w), Call("rerun-failed-jobs", w)>>
    ELSE <<Call("rerun-failed-jobs", w)>>

\* the goroutine started by WorkflowProcessor.rerunFailedJobs: the requests
\* it issues, in order
rerunFailedJobsTask(w, jobs, faults) ==
    IF Failed(faults, "list-jobs", w) THEN <<>>
    ELSE IF \E i \in 1..Len(jobs) : jobs[i].name = "Commit Status Start"
    THEN IF Failed(faults, "rerun-job", w)
         THEN <<Call("rerun-job", w)>>
         ELSE <<Call("rerun-job", w), Call("rerun-failed-jobs", w)>>
    ELSE <<Call("rerun-failed-jobs", w)>>

\* variant: the rerun is requested without looking at the jobs' conclusions
rerunFailedJobsUnconditional(w, jobs, faults) ==
    IF Failed(faults, "list-jobs", w)
    THEN Result(<<>>, TRUE)
    ELSE Result(<<Call("rerun-failed-jobs", w)>>,
                Failed(faults, "rerun-failed-jobs", w))

\* package-level rerunFailedJobs, used on workflow-run failure events
rerunFailedJobs(w, jobs, faults) ==
    IF Failed(faults, "list-jobs", w)
    THEN Result(<<>>, TRUE)
    ELSE IF ~\E i \in 1..Len(jobs) : jobs[i].conclusion = "failure"
    THEN Result(<<>>, FALSE)
    ELSE Result(<<Call("rerun-failed-jobs", w)>>,
                Failed(faults, "rerun-failed-jobs", w))

\* substrings of a workflow path that configurations name: its segments
\* and the extension shared by every workflow file
PathFragments(path) == SeqToSet(PathParts(path)) \cup {".yaml", path}

StringsContains(path, s) == s \in PathFragments(path)

FilepathBase(path) == PathParts(path)[Len(PathParts(path))]

\* variant in which the allowed list is consulted before the exclude list
RerunEligibleAllowedFirst(c, path) ==
    /\ c.rerun.present
    /\ \/ \E i \in 1..Len(c.rerun.workflows) :
            StringsContains(path, c.rerun.workflows[i])
       \/ /\ Len(c.rerun.workflows) = 0
          /\ ~\E i \in 1..Len(c.rerun.excludeWorkflows) :
                 StringsContains(path, c.rerun.excludeWorkflows[i])

\* variant in which an empty allowed list allows nothing
RerunEligibleListedOnly(c, path) ==
    /\ c.rerun.present
    /\ ~\E i \in 1..Len(c.rerun.excludeWorkflows) :
            StringsContains(path, c.rerun.excludeWorkflows[i])
    /\ \E i \in 1..Len(c.rerun.workflows) :
            StringsContains(path, c.rerun.workflows[i])

\* variant in which an allowed list is ignored
RerunEligibleAnyListed(c, path) ==
    /\ c.rerun.present
    /\ ~\E i \in 1..Len(c.rerun.excludeWorkflows) :
            StringsContains(path, c.rerun.excludeWorkflows[i])

\* the exclude and allowed lists of handleFailedRun
RerunEligible(c, path) ==
    /\ c.rerun.present
    /\ ~\E i \in 1..Len(c.rerun.excludeWorkflows) :
            StringsContains(path, c.rerun.excludeWorkflows[i])
    /\ \/ Len(c.rerun.workflows) = 0
       \/ \E i \in 1..Len(c.rerun.workflows) :
            StringsContains(path, c.rerun.workflows[i])

\* variant that allows one rerun more than rerun.max-retries
handleFailedRunOneMore(c, path, runAttempt, jobs, faults) ==
    LET w == FilepathBase(path)
        maxRetries == IF c.rerun.present THEN c.rerun.maxRetries ELSE 0
    IN  IF ~RerunEligible(c, path) THEN Outcome(<<>>, "", <<>>, <<>>)
        ELSE IF Failed(faults, "get-run", w)
        THEN Outcome(<<>>, "failed to get workflow run", <<>>, <<>>)
        ELSE IF runAttempt > maxRetries + 1 THEN Outcome(<<>>, "", <<>>, <<>>)
        ELSE LET r == rerunFailedJobs(w, jobs, faults) IN
             Outcome(r.reqs,
                     IF r.err THEN "failed to rerun failed jobs" ELSE "",
                     <<>>, <<>>)

\* variant without the max-retries check
handleFailedRunNoLimit(c, path, runAttempt, jobs, faults) ==
    LET w == FilepathBase(path) IN
    IF ~RerunEligible(c, path) THEN Outcome(<<>>, "", <<>>, <<>>)
    ELSE IF Failed(faults, "get-run", w)
    THEN Outcome(<<>>, "failed to get workflow run", <<>>, <<>>)
    ELSE LET r == rerunFailedJobs(w, jobs, faults) IN
         Outcome(r.reqs, IF r.err THEN "failed to rerun failed jobs" ELSE "",
                 <<>>, <<>>)

\* variant that retries once when rerun.max-retries is not positive
handleFailedRunDefaultOnce(c, path, runAttempt, jobs, faults) ==
    LET w == FilepathBase(path)
        maxRetries == IF c.rerun.present /\ c.rerun.maxRetries > 0
                      THEN c.rerun.maxRetries ELSE 1
    IN  IF ~RerunEligible(c, path) THEN Outcome(<<>>, "", <<>>, <<>>)
        ELSE IF Failed(faults, "get-run", w)
        THEN Outcome(<<>>, "failed to get workflow run", <<>>, <<>>)
        ELSE IF runAttempt > maxRetries THEN Outcome(<<>>, "", <<>>, <<>>)
        ELSE LET r == rerunFailedJobs(w, jobs, faults) IN
             Outcome(r.reqs,
                     IF r.err THEN "failed to rerun failed jobs" ELSE "",
                     <<>>, <<>>)

\* runAttempt is what GetWorkflowRunByID reports for the failed run
handleFailedRun(c, path, runAttempt, jobs, faults) ==
    LET w == FilepathBase(path)
        maxRetries == IF c.rerun.present THEN c.rerun.maxRetries ELSE 0
    IN  IF ~RerunEligible(c, path) THEN Outcome(<<>>, "", <<>>, <<>>)
        ELSE IF Failed(faults, "get-run", w)
        THEN Outcome(<<>>, "failed to get workflow run", <<>>, <<>>)
        ELSE IF runAttempt > maxRetries THEN Outcome(<<>>, "", <<>>, <<>>)
        ELSE LET r == rerunFailedJobs(w, jobs, faults) IN
             Outcome(r.reqs,
                     IF r.err THEN "failed to rerun failed jobs" ELSE "",
                     <<>>, <<>>)

-----------------------------------------------------------------------------
(* Chainers of workflow-run success events *)

Comment(body, created, by) == [body |-> body, created |-> created, by |-> by]

\* time.Duration constants of the dependent chainer, in minutes
commentSince == -180

recentCutoff == -15

commentLookbackLimit == 100

\* Issues.ListComments with Since and PerPage: the first page of the
\* comments not older than since, oldest first
getComments(cmts, since, count) ==
    LET sel == SelectSeq(cmts, LAMBDA x : x.created >= since)
    IN  SubSeq(sel, 1, IF Len(sel) < count THEN Len(sel) ELSE count)

prHasLabel(labels, labelName) ==
    \E i \in 1..Len(labels) : labels[i] = labelName

FoundComment(found, foundRecent) ==
    [found |-> found, foundRecent |-> foundRecent]

\* the loop over the fetched comments
RECURSIVE ScanComments(_, _, _, _)
ScanComments(phrase, cmts, recent, found) ==
    IF cmts = <<>> THEN FoundComment(found, FALSE)
    ELSE LET x == Head(cmts) IN
         IF RegexMatch(phrase, x.body)
         THEN IF x.created > recent THEN FoundComment(x.body, TRUE)
              ELSE ScanComments(phrase, Tail(cmts), recent, x.body)
         ELSE ScanComments(phrase, Tail(cmts), recent, found)

\* variant without the anti-spam cutoff
TriggerCommentToPostNoCutoff(phrase, cmts, t) ==
    ScanComments(phrase, getComments(cmts, t + commentSince,
                                     commentLookbackLimit), t, "").found

\* the body to post again for the phrase at time t, "" for none
TriggerCommentToPost(phrase, cmts, t) ==
    LET fetched == getComments(cmts, t + commentSince, commentLookbackLimit)
        f == ScanComments(phrase, fetched, t + recentCutoff, "")
    IN  IF f.found # "" /\ ~f.foundRecent THEN f.found ELSE ""

\* variant: the loop goes on to the next dependency after a post
RECURSIVE ChainDependenciesEveryMatch(_, _, _, _, _, _, _, _)
ChainDependenciesEveryMatch(c, hist, phrase, deps, w, cmts, t, faults) ==
    IF deps = <<>> THEN Outcome(<<>>, "", <<>>, <<>>)
    ELSE LET dep == Head(deps) IN
         IF dep \notin DOMAIN c.triggers
         THEN Outcome(<<>>, "dependency trigger not found", <<>>, <<>>)
         ELSE LET owns == \E i \in 1..Len(c.triggers[dep].workflows) :
                              c.triggers[dep].workflows[i] = w
                  body == IF /\ owns
                             /\ checkTriggerDependency(c, hist, dep,
                                                       faults).canRun
                             /\ ~Failed(faults, "list-comments", "")
                          THEN TriggerCommentToPost(phrase, cmts, t)
                          ELSE ""
                  rest == ChainDependenciesEveryMatch(c, hist, phrase,
                                                      Tail(deps), w, cmts, t,
                                                      faults)
              IN  IF body # ""
                  THEN Outcome(<<Call("comment", body)>> \o rest.reqs,
                               rest.err, <<>>, <<>>)
                  ELSE rest

\* the loops of processDependantWorkflows over the dependencies of one
\* trigger and their workflows
RECURSIVE ChainDependencies(_, _, _, _, _, _, _, _)
ChainDependencies(c, hist, phrase, deps, w, cmts, t, faults) ==
    IF deps = <<>> THEN Outcome(<<>>, "", <<>>, <<>>)
    ELSE LET dep == Head(deps) IN
         IF dep \notin DOMAIN c.triggers
         THEN Outcome(<<>>, "dependency trigger not found", <<>>, <<>>)
         ELSE LET owns == \E i \in 1..Len(c.triggers[dep].workflows) :
                              c.triggers[dep].workflows[i] = w
                  body == IF /\ owns
                             /\ checkTriggerDependency(c, hist, dep,
                                                       faults).canRun
                             /\ ~Failed(faults, "list-comments", "")
                          THEN TriggerCommentToPost(phrase, cmts, t)
                          ELSE ""
              IN  IF body # ""
                  THEN Outcome(<<Call("comment", body)>>, "", <<>>, <<>>)
                  ELSE ChainDependencies(c, hist, phrase, Tail(deps), w,
                                         cmts, t, faults)

\* the triggers are visited in the order of the map iteration; a comment
\* posted for one trigger is on the PR when the next trigger is visited
RECURSIVE ChainTriggers(_, _, _, _, _, _, _)
ChainTriggers(c, hist, order, w, cmts, t, faults) ==
    IF order = <<>> THEN Outcome(<<>>, "", <<>>, <<>>)
    ELSE LET o == ChainDependencies(c, hist, Head(order),
                                    c.triggers[Head(order)].dependsOn, w,
                                    cmts, t, faults)
         IN  IF o.err # "" THEN o
             ELSE LET posted == [i \in 1..Len(o.reqs) |->
                                    Comment(o.reqs[i].target, t, "app")]
                      rest == ChainTriggers(c, hist, Tail(order), w,
                                            cmts \o posted, t, faults)
                  IN  Outcome(o.reqs \o rest.reqs, rest.err, <<>>, <<>>)

processDependantWorkflows(c, hist, order, path, cmts, t, faults) ==
    ChainTriggers(c, hist, order, FilepathBase(path), cmts, t, faults)

\* one entry per listing of the completed workflow in a stage
RECURSIVE MatchedStages(_, _)
MatchedStages(stages, w) ==
    IF stages = <<>> THEN <<>>
    ELSE LET st == Head(stages)
             hits == SelectSeq(st.workflows, LAMBDA x : x = w)
         IN  [i \in 1..Len(hits) |-> st] \o MatchedStages(Tail(stages), w)

\* the check of one matched stage: "ok", "error" when a run listing fails,
\* "incomplete" when a listed run has another conclusion than success
RECURSIVE StageCheck(_, _, _)
StageCheck(hist, wfs, faults) ==
    IF wfs = <<>> THEN "ok"
    ELSE LET w == Head(wfs) IN
         IF Failed(faults, "list-runs", w) THEN "error"
         ELSE IF \E i \in 1..Len(hist[w]) : hist[w][i].conclusion # "success"
         THEN "incomplete"
         ELSE StageCheck(hist, Tail(wfs), faults)

\* the loop over the matched stages
RECURSIVE PostStages(_, _, _)
PostStages(hist, matched, faults) ==
    IF matched = <<>> THEN Outcome(<<>>, "", <<>>, <<>>)
    ELSE LET st == Head(matched)
             chk == StageCheck(hist, st.workflows, faults)
         IN  IF chk = "error"
             THEN Outcome(<<>>, "failed to list workflow runs", <<>>, <<>>)
             ELSE IF chk = "incomplete" THEN Outcome(<<>>, "", <<>>, <<>>)
             ELSE LET rest == PostStages(hist, Tail(matched), faults) IN
                  Outcome(<<Call("comment", st.command)>> \o rest.reqs,
                          rest.err, <<>>, <<>>)

processStages(c, hist, path, labels, faults) ==
    IF ~c.stagesConfig.present THEN Outcome(<<>>, "", <<>>, <<>>)
    ELSE IF c.stagesConfig.label = "" THEN Outcome(<<>>, "", <<>>, <<>>)
    ELSE IF ~prHasLabel(labels, c.stagesConfig.label)
    THEN Outcome(<<>>, "", <<>>, <<>>)
    ELSE PostStages(hist, MatchedStages(c.stagesConfig.stages,
                                        FilepathBase(path)), faults)

\* multierr.Combine of the two chainers, the stage chainer first
handleSuccessfulRun(c, hist, order, path, labels, cmts, t, faults) ==
    LET s == processStages(c, hist, path, labels, faults)
        d == processDependantWorkflows(c, hist, order, path, cmts, t, faults)
    IN  Outcome(s.reqs \o d.reqs,
                IF s.err # "" /\ d.err # "" THEN s.err \o "; " \o d.err
                ELSE IF s.err # "" THEN s.err ELSE d.err,
                <<>>, <<>>)

-----------------------------------------------------------------------------
(* Handlers of comment and PR-lifecycle deliveries, from the trigger match *)

\* the phrase that takes arguments: "/run" stands for a regular expression
\* with one capture group for the rest of the line, the other phrases have
\* no group
CaptureGroups(phrase) == IF phrase = "/run" THEN 1 ELSE 0

\* regexp.FindStringSubmatch on a matching body: the match and its groups
FindStringSubmatch(phrase, body) ==
    IF CaptureGroups(phrase) = 0 THEN <<phrase>>
    ELSE <<phrase,
           IF Len(BodyWords(body)) > 1 THEN BodyWords(body)[2] ELSE "">>

\* config.CheckForTrigger: the triggers are a Go map, so when several
\* phrases match the body any of them may be the one found
CheckForTrigger(c, body) ==
    LET found == {p \in DOMAIN c.triggers : RegexMatch(p, body)} IN
    IF found = {} THEN {NoMatch}
    ELSE {Match(FindStringSubmatch(p, body), c.triggers[p].workflows,
                c.triggers[p].dependsOn) : p \in found}

\* variant: the rocket reaction follows the processing whatever it returned
ProcessTriggerRocketAlways(c, hist, m, files, faults) ==
    IF Failed(faults, "reaction", "eyes")
    THEN Outcome(<<Call("reaction", "eyes")>>, "failed to react", <<>>, <<>>)
    ELSE LET o == processWorkflowsForTrigger(c, hist, m, files, faults) IN
         Outcome(<<Call("reaction", "eyes")>> \o o.reqs \o
                 <<Call("reaction", "rocket")>>,
                 o.err, o.statuses, o.spawn)

\* the reactions and the error comment around processWorkflowsForTrigger
ProcessTrigger(c, hist, m, files, faults) ==
    IF Failed(faults, "reaction", "eyes")
    THEN Outcome(<<Call("reaction", "eyes")>>, "failed to react", <<>>, <<>>)
    ELSE LET o == processWorkflowsForTrigger(c, hist, m, files, faults) IN
         IF o.err # ""
         THEN Outcome(<<Call("reaction", "eyes")>> \o o.reqs \o
                      (IF GetVerbose(c)
                       THEN <<Call("comment",
                                   "Failed to process workflows for trigger")>>
                       ELSE <<>>),
                      o.err, o.statuses, o.spawn)
         ELSE Outcome(<<Call("reaction", "eyes")>> \o o.reqs \o
                      <<Call("reaction", "rocket")>>,
                      IF Failed(faults, "reaction", "rocket")
                      THEN "failed to react" ELSE "",
                      o.statuses, o.spawn)

\* PRCommentHandler.Handle for an authorized '/' comment
PRCommentHandle(c, hist, m, files, faults) ==
    IF m = NoMatch
    THEN Outcome(IF GetVerbose(c)
                 THEN <<Call("comment", "Command not found")>> ELSE <<>>,
                 "", <<>>, <<>>)
    ELSE ProcessTrigger(c, hist, m, files, faults)

defaultRunTrigger == "/default"

\* PullRequestHandler.Handle for an allowed action on an open PR
PullRequestHandle(c, hist, m, files, faults) ==
    IF m = NoMatch THEN Outcome(<<>>, "", <<>>, <<>>)
    ELSE ProcessTrigger(c, hist, m, files, faults)

-----------------------------------------------------------------------------
(* Authorization of the actor of a delivery *)

repositoryOwner == "cilium"

\* logins of comment authors and PR creators
Logins == {"cilium-ci[bot]", "dependabot[bot]", "alice", "cilium-dev"}

\* a login as the pieces strings.HasPrefix and strings.HasSuffix look at
LoginParts(login) ==
    CASE login = "cilium-ci[bot]" -> <<"cilium", "-ci", "[bot]">>
      [] login = "dependabot[bot]" -> <<"dependabot", "[bot]">>
      [] login = "cilium-dev" -> <<"cilium", "-dev">>
      [] OTHER -> <<login>>

StringsHasPrefix(login, prefix) == LoginParts(login)[1] = prefix

StringsHasSuffix(login, suffix) ==
    LoginParts(login)[Len(LoginParts(login))] = suffix

Teams == {"core", "ci"}

\* what the forge answers to a team-membership query: an active or a
\* pending membership, a 404, or another error
MembershipAnswers == {"active", "pending", "404", "error"}

\* variant: a failed query of any kind moves on to the next team
RECURSIVE TeamLoopSkipErrors(_, _)
TeamLoopSkipErrors(teams, membership) ==
    IF teams = <<>> THEN FALSE
    ELSE IF membership[Head(teams)] = "active" THEN TRUE
    ELSE TeamLoopSkipErrors(Tail(teams), membership)

\* the loop of isAllowedTeamMember over the listed teams
RECURSIVE TeamLoop(_, _)
TeamLoop(teams, membership) ==
    IF teams = <<>> THEN FALSE
    ELSE LET answer == membership[Head(teams)] IN
         IF answer = "error" THEN FALSE
         ELSE IF answer = "404" \/ answer # "active"
         THEN TeamLoop(Tail(teams), membership)
         ELSE TRUE

isAllowedTeamMember(c, membership) ==
    IF Len(c.allowedTeams) = 0 THEN TRUE
    ELSE TeamLoop(c.allowedTeams, membership)

\* variant: every login with the bot suffix is taken for the app's bot
CommentActorAnyBot(login) ==
    IF StringsHasSuffix(login, "[bot]") THEN "bot" ELSE "user"

\* the bot check of PRCommentHandler.Handle: "unsupported-bot" when the
\* handler returns there, "bot" when it sets botUser, "user" otherwise
CommentActor(login) ==
    IF StringsHasSuffix(login, "[bot]")
    THEN IF ~StringsHasPrefix(login, repositoryOwner)
         THEN "unsupported-bot" ELSE "bot"
    ELSE "user"

\* variant: the body as it was written
Untrimmed(body) == body

\* strings.TrimSpace of a comment body
StringsTrimSpace(body) ==
    CASE body = "  /default" -> "/default"
      [] body = "\n/nope" -> "/nope"
      [] OTHER -> body

\* bodies that start with '/'
SlashBodies == {"/default", "/deploy", "/nope", "/deploy now", "/run",
                "/run --focus", "/run a\"b", "/run <x>"}

\* variant: no team check, every user's command is processed
PRCommentHandlerHandleNoTeamCheck(c, login, membership, hist, body, m, files, faults) ==
    IF StringsTrimSpace(body) \notin SlashBodies
    THEN Outcome(<<>>, "", <<>>, <<>>)
    ELSE IF CommentActor(login) = "unsupported-bot"
    THEN Outcome(<<Call("comment",
                        "Issue comment was created by an unsupported bot")>>,
                 "", <<>>, <<>>)
    ELSE IF Failed(faults, "get-pr", "1")
    THEN Outcome(<<Call("comment", "Failed to retrieve pull request")>>,
                 "failed to retrieve pull request", <<>>, <<>>)
    ELSE IF Failed(faults, "get-config", "")
    THEN Outcome(<<Call("comment", "Failed to retrieve config file")>>,
                 "failed to retrieve config file", <<>>, <<>>)
    ELSE PRCommentHandle(c, hist, m, files, faults)

\* PRCommentHandler.Handle for a created comment on a PR
PRCommentHandlerHandle(c, login, membership, hist, body, m, files, faults) ==
    IF StringsTrimSpace(body) \notin SlashBodies
    THEN Outcome(<<>>, "", <<>>, <<>>)
    ELSE IF CommentActor(login) = "unsupported-bot"
    THEN Outcome(<<Call("comment",
                        "Issue comment was created by an unsupported bot")>>,
                 "", <<>>, <<>>)
    ELSE IF Failed(faults, "get-pr", "1")
    THEN Outcome(<<Call("comment", "Failed to retrieve pull request")>>,
                 "failed to retrieve pull request", <<>>, <<>>)
    ELSE IF Failed(faults, "get-config", "")
    THEN Outcome(<<Call("comment", "Failed to retrieve config file")>>,
                 "failed to retrieve config file", <<>>, <<>>)
    ELSE IF CommentActor(login) # "bot" /\ ~isAllowedTeamMember(c, membership)
    THEN Outcome(IF GetVerbose(c)
                 THEN <<Call("comment", "Comment not allowed")>> ELSE <<>>,
                 "", <<>>, <<>>)
    ELSE PRCommentHandle(c, hist, m, files, faults)

\* PRCommentHandler.Handle from the parsed event on: the issue may be no
\* PR, the action another than created, and the installation client may
\* fail to be created
PRCommentHandlerHandleEvent(isPR, action, c, login, membership, hist, body, m, files, faults) ==
    IF ~isPR THEN Outcome(<<>>, "", <<>>, <<>>)
    ELSE IF action # "created" THEN Outcome(<<>>, "", <<>>, <<>>)
    ELSE IF Failed(faults, "new-client", "")
    THEN Outcome(<<>>, "failed to create installation client", <<>>, <<>>)
    ELSE PRCommentHandlerHandle(c, login, membership, hist, body, m, files,
                                faults)

\* the PR numbers of a workflow-run event, as fault targets
PRNumber(i) == IF i = 1 THEN "1" ELSE "2"

\* the loop of WorkflowRunHandler.Handle over the PRs of the run: which
\* PR fullPR holds at the end (0 for nil), and whether the handler has
\* returned because the configuration could not be loaded
RECURSIVE CreatorLoop(_, _, _, _, _, _, _)
CreatorLoop(c, creators, membership, i, fullPR, loaded, faults) ==
    IF i > Len(creators) THEN [fullPR |-> fullPR, returned |-> FALSE]
    ELSE IF Failed(faults, "get-pr", PRNumber(i))
    THEN CreatorLoop(c, creators, membership, i + 1, 0, loaded, faults)
    ELSE IF ~loaded /\ Failed(faults, "get-config", "")
    THEN [fullPR |-> i, returned |-> TRUE]
    ELSE IF /\ \/ ~StringsHasPrefix(creators[i], repositoryOwner)
               \/ ~StringsHasSuffix(creators[i], "[bot]")
            /\ ~isAllowedTeamMember(c, membership)
    THEN CreatorLoop(c, creators, membership, i + 1, 0, TRUE, faults)
    ELSE CreatorLoop(c, creators, membership, i + 1, i, TRUE, faults)

\* WorkflowRunHandler.Handle for a completed run
WorkflowRunHandlerHandle(c, creators, membership, conclusion, hist, order, path, labels, cmts, t, runAttempt, jobs, faults) ==
    LET l == CreatorLoop(c, creators, membership, 1, 0, FALSE, faults) IN
    IF Len(creators) = 0 \/ l.returned \/ l.fullPR = 0
    THEN Outcome(<<>>, "", <<>>, <<>>)
    ELSE IF conclusion = "success"
    THEN handleSuccessfulRun(c, hist, order, path, labels, cmts, t, faults)
    ELSE IF conclusion = "failure"
    THEN handleFailedRun(c, path, runAttempt, jobs, faults)
    ELSE Outcome(<<>>, "", <<>>, <<>>)

-----------------------------------------------------------------------------
(* The context of a PR and the workflow-dispatch request *)

repositoryName == "ariane"

Repo(owner, name) == [owner |-> owner, name |-> name]

\* the PR as the forge returns it
PullRequestOf(number, headRepo, headRef, baseRef) ==
    [number |-> number, headRepo |-> headRepo, headRef |-> headRef,
     baseRef |-> baseRef, headSHA |-> "sha-head", baseSHA |-> "sha-base"]

Context(contextRef, headSHA, baseSHA) ==
    [contextRef |-> contextRef, headSHA |-> headSHA, baseSHA |-> baseSHA]

\* variant: the head ref whatever the head repository is
determineContextRefHead(pr, owner, repo) ==
    Context(pr.headRef, pr.headSHA, pr.baseSHA)

determineContextRef(pr, owner, repo) ==
    IF pr.headRepo.owner # owner \/ pr.headRepo.name # repo
    THEN Context(pr.baseRef, pr.headSHA, pr.baseSHA)
    ELSE Context(pr.headRef, pr.headSHA, pr.baseSHA)

\* config.GetArianeConfigFromRepository: the configuration file of the
\* event's repository at ref
GetArianeConfigFromRepository(files, ref) == files[ref]

DecimalDigit(d) ==
    CASE d = 0 -> "0" [] d = 1 -> "1" [] d = 2 -> "2" [] d = 3 -> "3"
      [] d = 4 -> "4" [] d = 5 -> "5" [] d = 6 -> "6" [] d = 7 -> "7"
      [] d = 8 -> "8" [] d = 9 -> "9"

\* strconv.Itoa of a PR number
RECURSIVE StrconvItoa(_)
StrconvItoa(n) ==
    IF n < 10 THEN DecimalDigit(n)
    ELSE StrconvItoa(n \div 10) \o DecimalDigit(n % 10)

\* the characters of the texts a trigger captures
TextChars(t) ==
    CASE t = "--focus" -> <<"-", "-", "f", "o", "c", "u", "s">>
      [] t = "a\"b" -> <<"a", "\"", "b">>
      [] t = "<x>" -> <<"<", "x", ">">>
      [] OTHER -> <<>>

\* encoding/json on one character of a string, HTML escaping included
JsonEscape(ch) ==
    CASE ch = "\"" -> "\\\""
      [] ch = "\\" -> "\\\\"
      [] ch = "<" -> "\\u003c"
      [] ch = ">" -> "\\u003e"
      [] ch = "&" -> "\\u0026"
      [] OTHER -> ch

RECURSIVE JsonEscapeAll(_)
JsonEscapeAll(chars) ==
    IF chars = <<>> THEN ""
    ELSE JsonEscape(Head(chars)) \o JsonEscapeAll(Tail(chars))

\* string(json.Marshal(t)) of a Go string
JsonMarshal(t) == "\"" \o JsonEscapeAll(TextChars(t)) \o "\""

DispatchEvent(ref, inputs) == [ref |-> ref, inputs |-> inputs]

\* variant: the captured group is passed as it is
createWorkflowDispatchEventRaw(prNumber, contextRef, headSHA, baseSHA, submatch) ==
    DispatchEvent(contextRef,
                  [k \in {"PR-number", "context-ref", "SHA", "base-SHA"}
                        \cup (IF Len(submatch) > 1 THEN {"extra-args"} ELSE {})
                     |-> CASE k = "PR-number" -> StrconvItoa(prNumber)
                           [] k = "context-ref" -> contextRef
                           [] k = "SHA" -> headSHA
                           [] k = "base-SHA" -> baseSHA
                           [] k = "extra-args" -> submatch[2]])

createWorkflowDispatchEvent(prNumber, contextRef, headSHA, baseSHA, submatch) ==
    DispatchEvent(contextRef,
                  [k \in {"PR-number", "context-ref", "SHA", "base-SHA"}
                        \cup (IF Len(submatch) > 1 THEN {"extra-args"} ELSE {})
                     |-> CASE k = "PR-number" -> StrconvItoa(prNumber)
                           [] k = "context-ref" -> contextRef
                           [] k = "SHA" -> headSHA
                           [] k = "base-SHA" -> baseSHA
                           [] k = "extra-args" -> JsonMarshal(submatch[2])])

\* variant: a configuration that cannot be loaded fails the delivery
\* without a comment
PullRequestHandlerHandleQuiet(c, hist, m, files, faults) ==
    IF Failed(faults, "get-pr", "1")
    THEN Outcome(<<Call("comment", "Failed to retrieve pull request")>>,
                 "failed to retrieve pull request", <<>>, <<>>)
    ELSE IF Failed(faults, "get-config", "")
    THEN Outcome(<<>>, "failed to retrieve config file", <<>>, <<>>)
    ELSE PullRequestHandle(c, hist, m, files, faults)

\* PullRequestHandler.Handle for an allowed action
PullRequestHandlerHandle(c, hist, m, files, faults) ==
    IF Failed(faults, "get-pr", "1")
    THEN Outcome(<<Call("comment", "Failed to retrieve pull request")>>,
                 "failed to retrieve pull request", <<>>, <<>>)
    ELSE IF Failed(faults, "get-config", "")
    THEN Outcome(<<Call("comment", "Failed to retrieve config file")>>,
                 "failed to retrieve config file", <<>>, <<>>)
    ELSE PullRequestHandle(c, hist, m, files, faults)

\* the actions of a pull_request event the handler goes on with
allowedActions == {"opened", "reopened", "synchronize"}

\* variant: every action of a pull_request event is handled
PullRequestEventAnyAction(action, c, hist, m, files, faults) ==
    PullRequestHandlerHandle(c, hist, m, files, faults)

\* PullRequestHandler.Handle from the action filter on
PullRequestEvent(action, c, hist, m, files, faults) ==
    IF action \notin allowedActions THEN Outcome(<<>>, "", <<>>, <<>>)
    ELSE PullRequestHandlerHandle(c, hist, m, files, faults)

\* the requests of processWorkflowsForTrigger as the forge receives them:
\* triggerWorkflow sends the event with every dispatch
WithDispatchEvent(reqs, event) ==
    [i \in 1..Len(reqs) |->
        IF reqs[i].op = "dispatch"
        THEN [event |-> event] @@ reqs[i] ELSE reqs[i]]

-----------------------------------------------------------------------------
(* Deliveries *)

Delivery(kind, c, body, m, wf, runAttempt, jobs, files, labels, faults, out) ==
    [kind |-> kind, cfg |-> c, body |-> body, match |-> m, wf |-> wf,
     runAttempt |-> runAttempt, jobs |-> jobs, files |-> files,
     labels |-> labels, faults |-> faults, out |-> out]

NoOutcome == Outcome(<<>>, "", <<>>, <<>>)

NoDelivery ==
    Delivery("none", NoConfig, "", NoMatch, "", 0, <<>>, <<>>, <<>>, {},
             NoOutcome)

\* at most one forge call fails during a delivery
FaultSets(points) == {{}} \cup {{x} : x \in points}

FileLists == {<<>>, <<"src/a.go">>, <<"docs/x.md">>}

Feedbacks == {<<FALSE, FALSE>>, <<TRUE, TRUE>>}

\* configurations loaded by comment and PR-lifecycle deliveries
TriggerConfigs ==
    {ArianeConfig(Triggers, DocsIgnored, f, RerunConfig(0, <<>>, <<>>),
                  NoStagesConfig) : f \in Feedbacks}

\* configurations loaded by workflow-run failure deliveries
RetryConfigs ==
    {ArianeConfig(Triggers, NoWorkflowsSection, <<FALSE, FALSE>>, r,
                  NoStagesConfig) :
        r \in {NoRerunConfig} \cup
              {RerunConfig(n, <<>>, <<>>) : n \in 0..MaxRetriesCfg}}

\* workflows of the triggers a match depends on
DependencyWorkflows(c, m) ==
    UNION {SeqToSet(c.triggers[m.dependsOn[i]].workflows) :
            i \in {j \in 1..Len(m.dependsOn) : m.dependsOn[j] \in DOMAIN c.triggers}}

\* the forge calls a trigger delivery can make
TriggerCalls(c, m) ==
    IF m = NoMatch THEN {}
    ELSE {Call("list-runs", w) :
            w \in SeqToSet(m.workflows) \cup DependencyWorkflows(c, m)}
         \cup {Call(op, w) : op \in {"dispatch", "get-workflow", "check-run"},
                             w \in SeqToSet(m.workflows)}
         \cup {Call("list-files", ""), Call("reaction", "eyes"),
               Call("reaction", "rocket")}

NoFailedRun == [wf |-> "", attempt |-> 0]

Idle == delivery = NoDelivery

\* the forge reports a new run of w at the head SHA
ForgeRun(w, r) ==
    /\ Idle
    /\ Records < MaxRecords
    /\ runs' = [runs EXCEPT ![w] = <<r>> \o @]
    /\ UNCHANGED <<comments, now, delivery, subtasks, asyncReqs, inflight,
                   failedRun, rerunCount, rerunCfg>>

\* an authorized '/' comment on the PR is delivered and handled
IssueComment(c, body, files) ==
    /\ Idle
    /\ \E m \in CheckForTrigger(c, body) :
       \E faults \in FaultSets(TriggerCalls(c, m)) :
          LET out == PRCommentHandle(c, runs, m, files, faults) IN
          /\ delivery' = Delivery("issue_comment", c, body, m, "", 0, <<>>,
                                  files, <<>>, faults, out)
          /\ subtasks' = out.spawn
    /\ asyncReqs' = <<>>
    /\ UNCHANGED <<runs, comments, now, inflight, failedRun, rerunCount,
                   rerunCfg>>

\* an opened, reopened or synchronize event of the PR is delivered
PullRequest(c, files) ==
    /\ Idle
    /\ \E m \in CheckForTrigger(c, defaultRunTrigger) :
       \E faults \in FaultSets(TriggerCalls(c, m)) :
          LET out == PullRequestHandle(c, runs, m, files, faults) IN
          /\ delivery' = Delivery("pull_request", c, defaultRunTrigger, m, "",
                                  0, <<>>, files, <<>>, faults, out)
          /\ subtasks' = out.spawn
    /\ asyncReqs' = <<>>
    /\ UNCHANGED <<runs, comments, now, inflight, failedRun, rerunCount,
                   rerunCfg>>

\* one rerun goroutine of the delivery runs to its end
RerunSubtask(i, jobs) ==
    /\ i \in 1..Len(subtasks)
    /\ LET w == subtasks[i] IN
       \E faults \in FaultSets({Call("list-jobs", w), Call("rerun-job", w)}) :
          asyncReqs' = asyncReqs \o rerunFailedJobsTask(w, jobs, faults)
    /\ subtasks' = SubSeq(subtasks, 1, i - 1)
                   \o SubSeq(subtasks, i + 1, Len(subtasks))
    /\ UNCHANGED <<runs, comments, now, delivery, inflight, failedRun,
                   rerunCount, rerunCfg>>

\* a completed workflow run of w with conclusion failure is delivered
WorkflowRunFailure(c, w, runAttempt, jobs) ==
    /\ Idle
    /\ \E i \in 1..Len(runs[w]) : runs[w][i] = Run("completed", "failure")
    /\ \E faults \in FaultSets({Call("get-run", w), Call("list-jobs", w),
                                Call("rerun-failed-jobs", w)}) :
          delivery' = Delivery("workflow_run_failure", c, "", NoMatch, w,
                               runAttempt, jobs, <<>>, <<>>, faults,
                               handleFailedRun(c, WorkflowPath(w), runAttempt,
                                               jobs, faults))
    /\ subtasks' = <<>>
    /\ asyncReqs' = <<>>
    /\ UNCHANGED <<runs, comments, now, inflight, failedRun, rerunCount,
                   rerunCfg>>

\* the delivery's record is dropped: the handlers keep no state
Finish ==
    /\ ~Idle
    /\ delivery' = NoDelivery
    /\ subtasks' = <<>>
    /\ asyncReqs' = <<>>
    /\ UNCHANGED <<runs, comments, now, inflight, failedRun, rerunCount,
                   rerunCfg>>

Init ==
    /\ runs = NoRuns
    /\ comments = <<>>
    /\ now = 0
    /\ delivery = NoDelivery
    /\ subtasks = <<>>
    /\ asyncReqs = <<>>
    /\ inflight = <<>>
    /\ failedRun = NoFailedRun
    /\ rerunCount = 0
    /\ rerunCfg = NoConfig

Next ==
    \/ \E w \in Workflows, r \in RunKinds : ForgeRun(w, r)
    \/ \E c \in TriggerConfigs, body \in CommentBodies, files \in FileLists :
          IssueComment(c, body, files)
    \/ \E c \in TriggerConfigs, files \in FileLists : PullRequest(c, files)
    \/ \E i \in 1..MaxRecords, jobs \in JobLists : RerunSubtask(i, jobs)
    \/ \E c \in RetryConfigs, w \in Workflows,
          runAttempt \in 1..(MaxRetriesCfg + 1), jobs \in JobLists :
          WorkflowRunFailure(c, w, runAttempt, jobs)
    \/ Finish

Spec == Init /\ [][Next]_vars

-----------------------------------------------------------------------------
(* Workflow-run success deliveries: stage chainer and dependent chainer *)

\* a stage of two workflows followed by a stage of one
Pipeline == <<Stage(<<"a.yaml", "b.yaml">>, "/e2e"),
              Stage(<<"c.yaml">>, "/release")>>

StageLabel == "auto-cicd"

SuccessConfigs ==
    {ArianeConfig(Triggers, NoWorkflowsSection, <<FALSE, FALSE>>,
                  NoRerunConfig, st) :
        st \in {NoStagesConfig, StagesConfig("", Pipeline),
                StagesConfig(StageLabel, Pipeline)}}

LabelLists == {<<>>, <<StageLabel>>}

\* bodies and creation times of the comments users leave on the PR
UserBodies == {"/deploy", "/deploy now", "lgtm"}

CommentTimes == {0, 100, 190}

\* the clock when the deliveries start: the oldest comments are outside
\* the lookback of the dependent chainer
StartTime == 20 - commentSince

\* conclusions of the runs reported while success events are handled
ChainRunKinds == {Run("completed", "success"), Run("completed", "failure"),
                  Run("in_progress", "")}

\* the orders in which a map iteration can visit the dependent triggers
TriggerOrders(c) ==
    LET S == {p \in DOMAIN c.triggers : Len(c.triggers[p].dependsOn) > 0}
    IN  {o \in [1..Cardinality(S) -> S] :
            \A i, j \in 1..Cardinality(S) : i # j => o[i] # o[j]}

\* a user comments on the PR, after the comments already there
ForgeComment(body, created) ==
    /\ Idle
    /\ created <= now
    /\ comments # <<>> => comments[Len(comments)].created < created
    /\ comments' = Append(comments, Comment(body, created, "user"))
    /\ UNCHANGED <<runs, now, delivery, subtasks, asyncReqs, inflight,
                   failedRun, rerunCount, rerunCfg>>

\* a completed workflow run of w with conclusion success is delivered
WorkflowRunSuccess(c, w, labels) ==
    /\ Idle
    /\ \E i \in 1..Len(runs[w]) : runs[w][i] = Run("completed", "success")
    /\ \E order \in TriggerOrders(c) :
       \E faults \in FaultSets({Call("list-runs", x) : x \in Workflows}
                               \cup {Call("list-comments", "")}) :
          delivery' = Delivery("workflow_run_success", c, "", NoMatch, w, 0,
                               <<>>, <<>>, labels, faults,
                               handleSuccessfulRun(c, runs, order,
                                                   WorkflowPath(w), labels,
                                                   comments, now, faults))
    /\ subtasks' = <<>>
    /\ asyncReqs' = <<>>
    /\ UNCHANGED <<runs, comments, now, inflight, failedRun, rerunCount,
                   rerunCfg>>

InitSuccess ==
    /\ runs = NoRuns
    /\ comments = <<>>
    /\ now = StartTime
    /\ delivery = NoDelivery
    /\ subtasks = <<>>
    /\ asyncReqs = <<>>
    /\ inflight = <<>>
    /\ failedRun = NoFailedRun
    /\ rerunCount = 0
    /\ rerunCfg = NoConfig

NextSuccess ==
    \/ \E w \in Workflows, r \in ChainRunKinds : ForgeRun(w, r)
    \/ \E body \in UserBodies, created \in CommentTimes :
          ForgeComment(body, created)
    \/ \E c \in SuccessConfigs, w \in Workflows, labels \in LabelLists :
          WorkflowRunSuccess(c, w, labels)
    \/ Finish

SpecSuccess == InitSuccess /\ [][NextSuccess]_vars

-----------------------------------------------------------------------------
(* Two workflow-run success deliveries handled concurrently.  The          *)
(* scheduler runs every delivery in its own goroutine; reading the PR      *)
(* comments and posting a comment are separate forge calls.                *)

ChainConfig ==
    ArianeConfig(Triggers, NoWorkflowsSection, <<FALSE, FALSE>>,
                 NoRerunConfig, NoStagesConfig)

ChainDelivery(pc, wf, reqs) == [pc |-> pc, wf |-> wf, reqs |-> reqs]

\* delivery d checks the dependencies, reads the comments and decides
ChainRead(d) ==
    /\ inflight[d].pc = "ready"
    /\ \E order \in TriggerOrders(ChainConfig) :
          inflight' = [inflight EXCEPT ![d] =
              ChainDelivery("posting", @.wf,
                  processDependantWorkflows(ChainConfig, runs, order,
                                            WorkflowPath(@.wf), comments,
                                            now, {}).reqs)]
    /\ UNCHANGED <<runs, comments, now, delivery, subtasks, asyncReqs,
                   failedRun, rerunCount, rerunCfg>>

\* delivery d posts what it decided to post and returns
ChainPost(d) ==
    /\ inflight[d].pc = "posting"
    /\ comments' = comments \o
                   [i \in 1..Len(inflight[d].reqs) |->
                       Comment(inflight[d].reqs[i].target, now, "app")]
    /\ inflight' = [inflight EXCEPT ![d] = ChainDelivery("done", @.wf, <<>>)]
    /\ UNCHANGED <<runs, now, delivery, subtasks, asyncReqs, failedRun,
                   rerunCount, rerunCfg>>

\* time passes, less than the anti-spam cutoff in total
Tick ==
    /\ now + TickMinutes - StartTime < -recentCutoff
    /\ now' = now + TickMinutes
    /\ UNCHANGED <<runs, comments, delivery, subtasks, asyncReqs, inflight,
                   failedRun, rerunCount, rerunCfg>>

\* both predecessors of /deploy have just succeeded, one event each
InitConcurrent ==
    /\ runs = [w \in Workflows |->
                 IF w \in {"a.yaml", "b.yaml"}
                 THEN <<Run("completed", "success")>> ELSE <<>>]
    /\ comments \in {<<>>} \cup
                    {<<Comment(body, created, "user")>> :
                        body \in UserBodies, created \in CommentTimes}
    /\ now = StartTime
    /\ delivery = NoDelivery
    /\ subtasks = <<>>
    /\ asyncReqs = <<>>
    /\ inflight = <<ChainDelivery("ready", "a.yaml", <<>>),
                    ChainDelivery("ready", "b.yaml", <<>>)>>
    /\ failedRun = NoFailedRun
    /\ rerunCount = 0
    /\ rerunCfg = NoConfig

NextConcurrent ==
    \/ \E d \in 1..2 : ChainRead(d)
    \/ \E d \in 1..2 : ChainPost(d)
    \/ Tick

SpecConcurrent == InitConcurrent /\ [][NextConcurrent]_vars

-----------------------------------------------------------------------------
(* Retries of one failed run.  The forge delivers a failure event for the  *)
(* current attempt of the run; a rerun request that the forge accepts      *)
(* starts the next attempt.                                                *)

RerunLists == {RerunConfig(n, wfs, excl) :
                  n \in 0..MaxRetriesCfg,
                  wfs \in {<<>>, <<"a.yaml">>, <<"b.yaml", ".yaml">>},
                  excl \in {<<>>, <<"b.yaml">>, <<"workflows">>}}

RerunConfigs ==
    {ArianeConfig(Triggers, NoWorkflowsSection, <<FALSE, FALSE>>, r,
                  NoStagesConfig) : r \in {NoRerunConfig} \cup RerunLists}

\* the failure event of the run's current attempt is delivered and handled
FailureEvent(jobs) ==
    /\ failedRun.attempt <= MaxRetriesCfg + 2
    /\ \E faults \in FaultSets({Call("get-run", failedRun.wf),
                                Call("list-jobs", failedRun.wf)}) :
          LET out == handleFailedRun(rerunCfg, WorkflowPath(failedRun.wf),
                                     failedRun.attempt, jobs, faults)
              issued == \E i \in 1..Len(out.reqs) :
                            out.reqs[i].op = "rerun-failed-jobs"
          IN  /\ delivery' = Delivery("workflow_run_failure", rerunCfg, "",
                                      NoMatch, failedRun.wf,
                                      failedRun.attempt, jobs, <<>>, <<>>,
                                      faults, out)
              /\ failedRun' = [failedRun EXCEPT
                                 !.attempt = IF issued THEN @ + 1 ELSE @]
              /\ rerunCount' = IF issued THEN rerunCount + 1 ELSE rerunCount
    /\ UNCHANGED <<runs, comments, now, subtasks, asyncReqs, inflight,
                   rerunCfg>>

\* somebody re-runs the run from the forge's user interface
ManualRerun ==
    /\ failedRun.attempt <= MaxRetriesCfg + 1
    /\ failedRun' = [failedRun EXCEPT !.attempt = @ + 1]
    /\ UNCHANGED <<runs, comments, now, delivery, subtasks, asyncReqs,
                   inflight, rerunCount, rerunCfg>>

InitRerun ==
    /\ runs = NoRuns
    /\ comments = <<>>
    /\ now = 0
    /\ delivery = NoDelivery
    /\ subtasks = <<>>
    /\ asyncReqs = <<>>
    /\ inflight = <<>>
    /\ failedRun \in {[wf |-> w, attempt |-> 1] : w \in {"a.yaml", "b.yaml"}}
    /\ rerunCount = 0
    /\ rerunCfg \in RerunConfigs

NextRerun ==
    \/ \E jobs \in JobLists : FailureEvent(jobs)
    \/ ManualRerun

SpecRerun == InitRerun /\ [][NextRerun]_vars

-----------------------------------------------------------------------------
(* Deliveries from actors of every kind: bots inside and outside the bot   *)
(* convention, team members and other users.                               *)

TeamLists == {<<>>, <<"core">>, <<"core", "ci">>, <<"ci", "core">>}

Memberships == [Teams -> MembershipAnswers]

NoMembership == [t \in Teams |-> "404"]

ActorConfigs ==
    {WithAllowedTeams(ArianeConfig(Triggers, NoWorkflowsSection, f,
                                   RerunConfig(1, <<>>, <<>>),
                                   StagesConfig(StageLabel, Pipeline)), teams) :
        f \in Feedbacks, teams \in TeamLists}

ActorBodies == {"/default", "/nope", "lgtm"}

\* the creators of the PRs a workflow run is associated with
CreatorLists ==
    {<<>>} \cup {<<x>> : x \in Logins}
    \cup {<<"alice", "cilium-ci[bot]">>, <<"cilium-ci[bot]", "alice">>,
          <<"dependabot[bot]", "cilium-dev">>}

Conclusions == {"success", "failure", "cancelled"}

AllPassed == [w \in Workflows |-> <<Run("completed", "success")>>]

\* a delivery together with the actors the handler authorized it for, what
\* isAllowedTeamMember returns for them and, for a workflow run, the PR
\* fullPR holds after the loop over the PRs of the run (0 for nil)
ActorDelivery(d, login, creators, membership, conclusion) ==
    [actor |-> login, creators |-> creators, membership |-> membership,
     conclusion |-> conclusion,
     allowed |-> isAllowedTeamMember(d.cfg, membership),
     fullPR |-> IF d.kind = "workflow_run"
                THEN CreatorLoop(d.cfg, creators, membership, 1, 0, FALSE,
                                 d.faults).fullPR
                ELSE 0] @@ d

\* a comment of login on the PR is delivered and handled
ActorComment(c, login, membership, body) ==
    /\ Idle
    /\ \E m \in CheckForTrigger(c, body) :
       \E faults \in FaultSets({Call("get-pr", "1"), Call("get-config", ""),
                                Call("reaction", "eyes")}) :
          LET out == PRCommentHandlerHandle(c, login, membership, runs, body,
                                            m, <<"src/a.go">>, faults)
          IN  /\ delivery' =
                    ActorDelivery(Delivery("issue_comment", c, body, m, "", 0,
                                           <<>>, <<"src/a.go">>, <<>>, faults,
                                           out),
                                  login, <<>>, membership, "")
              /\ subtasks' = out.spawn
    /\ asyncReqs' = <<>>
    /\ UNCHANGED <<runs, comments, now, inflight, failedRun, rerunCount,
                   rerunCfg>>

\* a completed run of the last workflow of the pipeline is delivered
ActorWorkflowRun(c, creators, membership, conclusion) ==
    /\ Idle
    /\ \E order \in TriggerOrders(c) :
       \E faults \in FaultSets({Call("get-pr", "1"), Call("get-pr", "2"),
                                Call("get-config", "")}) :
          LET jobs == <<Job("build", "failure")>>
              out == WorkflowRunHandlerHandle(c, creators, membership,
                                              conclusion, runs, order,
                                              WorkflowPath("c.yaml"),
                                              <<StageLabel>>, comments, now,
                                              1, jobs, faults)
          IN  delivery' =
                 ActorDelivery(Delivery("workflow_run", c, "", NoMatch,
                                        "c.yaml", 1, jobs, <<>>,
                                        <<StageLabel>>, faults, out),
                               "", creators, membership, conclusion)
    /\ subtasks' = <<>>
    /\ asyncReqs' = <<>>
    /\ UNCHANGED <<runs, comments, now, inflight, failedRun, rerunCount,
                   rerunCfg>>

\* an opened, reopened or synchronize event of the PR is delivered and
\* handled; the handler asks for nobody's teams
ActorPullRequest(c) ==
    /\ Idle
    /\ \E m \in CheckForTrigger(c, defaultRunTrigger) :
       \E faults \in FaultSets({Call("get-pr", "1"), Call("get-config", "")}) :
          LET out == PullRequestHandlerHandle(c, runs, m, <<"src/a.go">>,
                                              faults)
          IN  /\ delivery' =
                    ActorDelivery(Delivery("pull_request", c,
                                           defaultRunTrigger, m, "", 0, <<>>,
                                           <<"src/a.go">>, <<>>, faults, out),
                                  "", <<>>, NoMembership, "")
              /\ subtasks' = out.spawn
    /\ asyncReqs' = <<>>
    /\ UNCHANGED <<runs, comments, now, inflight, failedRun, rerunCount,
                   rerunCfg>>

InitActor ==
    /\ runs \in {NoRuns, AllPassed}
    /\ comments = <<>>
    /\ now = StartTime
    /\ delivery = NoDelivery
    /\ subtasks = <<>>
    /\ asyncReqs = <<>>
    /\ inflight = <<>>
    /\ failedRun = NoFailedRun
    /\ rerunCount = 0
    /\ rerunCfg = NoConfig

NextActor ==
    \/ \E c \in ActorConfigs, login \in Logins, membership \in Memberships,
          body \in ActorBodies : ActorComment(c, login, membership, body)
    \/ \E c \in {x \in ActorConfigs : ~GetVerbose(x)},
          creators \in CreatorLists, membership \in Memberships,
          conclusion \in Conclusions :
          ActorWorkflowRun(c, creators, membership, conclusion)
    \/ \E c \in ActorConfigs : ActorPullRequest(c)
    \/ Finish

SpecActor == InitActor /\ [][NextActor]_vars

-----------------------------------------------------------------------------
(* Deliveries for PRs of the repository and of forks: the context ref, the *)
(* configuration loaded at it and the dispatch requests sent.              *)

\* the triggers on the base branch; "/run" takes arguments
BaseTriggers ==
    [p \in {"/default", "/run"} |->
        IF p = "/run" THEN TriggerConfig(<<"a.yaml">>, <<>>)
        ELSE TriggerConfig(<<"a.yaml", "b.yaml">>, <<>>)]

\* the triggers as the PR branch has rewritten them
HeadTriggers ==
    [p \in {"/default", "/run"} |-> TriggerConfig(<<"c.yaml">>, <<>>)]

\* the configuration file of the repository at each ref
ConfigFiles ==
    [ref \in {"main", "feature"} |->
        ArianeConfig(IF ref = "main" THEN BaseTriggers ELSE HeadTriggers,
                     NoWorkflowsSection, <<FALSE, FALSE>>, NoRerunConfig,
                     NoStagesConfig)]

HeadRepos == {Repo(repositoryOwner, repositoryName),
              Repo("alice", repositoryName),
              Repo(repositoryOwner, "ariane-fork"), Repo("", "")}

PRNumbers == {7, 42, 1234}

PullRequests ==
    {PullRequestOf(n, r, "feature", "main") : n \in PRNumbers, r \in HeadRepos}

DispatchBodies == {"/default", "/run", "/run --focus", "/run a\"b",
                   "/run <x>", "/nope"}

DispatchFaults ==
    FaultSets({Call("get-pr", "1"), Call("get-config", ""),
               Call("dispatch", "a.yaml")})

\* a delivery together with its PR, the ref its configuration was loaded
\* from and its requests as sent
ContextDelivery(d, pr, configRef, event) ==
    [pr |-> pr, configRef |-> configRef] @@
    [d EXCEPT !.out.reqs = WithDispatchEvent(@, event)]

\* a '/' comment of a user on pr is delivered and handled
ContextComment(pr, body, files) ==
    /\ Idle
    /\ LET ctx == determineContextRef(pr, repositoryOwner, repositoryName)
           c == GetArianeConfigFromRepository(ConfigFiles, ctx.contextRef)
       IN  \E m \in CheckForTrigger(c, body), faults \in DispatchFaults :
              LET out == PRCommentHandlerHandle(c, "alice", NoMembership,
                                                runs, body, m, files, faults)
                  event == createWorkflowDispatchEvent(pr.number,
                               ctx.contextRef, ctx.headSHA, ctx.baseSHA,
                               m.submatch)
              IN  /\ delivery' =
                        ContextDelivery(Delivery("issue_comment", c, body, m,
                                                 "", 0, <<>>, files, <<>>,
                                                 faults, out),
                                        pr, ctx.contextRef, event)
                  /\ subtasks' = out.spawn
    /\ asyncReqs' = <<>>
    /\ UNCHANGED <<runs, comments, now, inflight, failedRun, rerunCount,
                   rerunCfg>>

\* an opened, reopened or synchronize event of pr is delivered and handled
ContextPullRequest(pr, files) ==
    /\ Idle
    /\ LET ctx == determineContextRef(pr, repositoryOwner, repositoryName)
           c == GetArianeConfigFromRepository(ConfigFiles, ctx.contextRef)
       IN  \E m \in CheckForTrigger(c, defaultRunTrigger),
              faults \in DispatchFaults :
              LET out == PullRequestHandlerHandle(c, runs, m, files, faults)
                  event == createWorkflowDispatchEvent(pr.number,
                               ctx.contextRef, ctx.headSHA, ctx.baseSHA,
                               m.submatch)
              IN  /\ delivery' =
                        ContextDelivery(Delivery("pull_request", c,
                                                 defaultRunTrigger, m, "", 0,
                                                 <<>>, files, <<>>, faults,
                                                 out),
                                        pr, ctx.contextRef, event)
                  /\ subtasks' = out.spawn
    /\ asyncReqs' = <<>>
    /\ UNCHANGED <<runs, comments, now, inflight, failedRun, rerunCount,
                   rerunCfg>>

InitContext ==
    /\ runs \in {NoRuns, AllPassed}
    /\ comments = <<>>
    /\ now = 0
    /\ delivery = NoDelivery
    /\ subtasks = <<>>
    /\ asyncReqs = <<>>
    /\ inflight = <<>>
    /\ failedRun = NoFailedRun
    /\ rerunCount = 0
    /\ rerunCfg = NoConfig

NextContext ==
    \/ \E pr \in PullRequests, body \in DispatchBodies, files \in FileLists :
          ContextComment(pr, body, files)
    \/ \E pr \in PullRequests, files \in FileLists :
          ContextPullRequest(pr, files)
    \/ Finish

SpecContext == InitContext /\ [][NextContext]_vars

-----------------------------------------------------------------------------
(* issue_comment events of every kind: on issues and on PRs, created,      *)
(* edited and deleted, commands and other bodies.                          *)

CommentActions == {"created", "edited", "deleted"}

EventBodies == {"/default", "  /default", "\n/nope", "please /default",
                "lgtm", ""}

EventFaults ==
    FaultSets({Call("new-client", ""), Call("get-pr", "1"),
               Call("get-config", ""), Call("reaction", "eyes")})

\* a delivery together with the event fields the handler filters on
EventDelivery(d, isPR, action) == [isPR |-> isPR, action |-> action] @@ d

\* an issue_comment event is delivered and handled
CommentEvent(isPR, action, c, body) ==
    /\ Idle
    /\ \E m \in CheckForTrigger(c, body), faults \in EventFaults :
          LET out == PRCommentHandlerHandleEvent(isPR, action, c, "alice",
                                                 NoMembership, runs, body, m,
                                                 <<"src/a.go">>, faults)
          IN  /\ delivery' =
                    EventDelivery(Delivery("issue_comment", c, body, m, "", 0,
                                           <<>>, <<"src/a.go">>, <<>>, faults,
                                           out),
                                  isPR, action)
              /\ subtasks' = out.spawn
    /\ asyncReqs' = <<>>
    /\ UNCHANGED <<runs, comments, now, inflight, failedRun, rerunCount,
                   rerunCfg>>

InitEvent ==
    /\ runs \in {NoRuns, AllPassed}
    /\ comments = <<>>
    /\ now = 0
    /\ delivery = NoDelivery
    /\ subtasks = <<>>
    /\ asyncReqs = <<>>
    /\ inflight = <<>>
    /\ failedRun = NoFailedRun
    /\ rerunCount = 0
    /\ rerunCfg = NoConfig

NextEvent ==
    \/ \E isPR \in BOOLEAN, action \in CommentActions, c \in TriggerConfigs,
          body \in EventBodies : CommentEvent(isPR, action, c, body)
    \/ Finish

SpecEvent == InitEvent /\ [][NextEvent]_vars

-----------------------------------------------------------------------------
(* The configuration linter: validateConfig on configurations whose        *)
(* triggers depend on each other, on themselves and on undefined triggers. *)

\* regexp.Compile succeeds
ValidRegex(re) == re # "("

LintError(kind, subject) == [kind |-> kind, subject |-> subject]

\* the first loop of validateConfig for one trigger
RECURSIVE UndefinedDependencies(_, _, _)
UndefinedDependencies(c, trigger, deps) ==
    IF deps = <<>> THEN <<>>
    ELSE (IF Head(deps) \notin DOMAIN c.triggers
          THEN <<LintError("undefined dependency", trigger)>> ELSE <<>>)
         \o UndefinedDependencies(c, trigger, Tail(deps))

RECURSIVE ValidateTriggers(_, _)
ValidateTriggers(c, order) ==
    IF order = <<>> THEN <<>>
    ELSE LET trigger == Head(order) IN
         (IF Len(c.triggers[trigger].workflows) = 0
          THEN <<LintError("no workflows", trigger)>> ELSE <<>>)
         \o (IF ~ValidRegex(trigger)
             THEN <<LintError("invalid regex", trigger)>> ELSE <<>>)
         \o UndefinedDependencies(c, trigger, c.triggers[trigger].dependsOn)
         \o ValidateTriggers(c, Tail(order))

\* the vertices left when those without an incoming edge are taken away
\* again and again: none iff the graph can be sorted topologically
RECURSIVE Unsorted(_, _)
Unsorted(vertices, edges) ==
    LET live == {e \in edges : e[1] \in vertices /\ e[2] \in vertices}
        free == {v \in vertices : ~\E e \in live : e[2] = v}
    IN  IF free = {} THEN vertices ELSE Unsorted(vertices \ free, edges)

Vertices(edges) == {e[1] : e \in edges} \cup {e[2] : e \in edges}

EdgeAdded(edges, err) == [edges |-> edges, err |-> err]

\* variant: a graph that takes every edge
AddEdgeUnchecked(edges, from, to) ==
    EdgeAdded(edges \cup {<<from, to>>}, FALSE)

\* AddEdge on a graph made with gograph.Acyclic(): an edge the graph has
\* already, or one that closes a cycle, is refused with an error
AddEdge(edges, from, to) ==
    IF <<from, to>> \in edges THEN EdgeAdded(edges, TRUE)
    ELSE LET added == edges \cup {<<from, to>>} IN
         IF Unsorted(Vertices(added), added) # {}
         THEN EdgeAdded(edges, TRUE)
         ELSE EdgeAdded(added, FALSE)

\* the depends-on entries in the order the second loop visits them
RECURSIVE DependencyEdges(_, _)
DependencyEdges(c, order) ==
    IF order = <<>> THEN <<>>
    ELSE [i \in 1..Len(c.triggers[Head(order)].dependsOn) |->
             <<c.triggers[Head(order)].dependsOn[i], Head(order)>>]
         \o DependencyEdges(c, Tail(order))

\* the second loop of validateConfig
RECURSIVE ValidateGraph(_, _)
ValidateGraph(edges, pending) ==
    IF pending = <<>> THEN <<>>
    ELSE LET r == AddEdge(edges, Head(pending)[1], Head(pending)[2]) IN
         (IF r.err THEN <<LintError("cycle", Head(pending)[2])>> ELSE <<>>)
         \o ValidateGraph(r.edges, Tail(pending))

\* the loop over the workflows section; the set of the errors, the order
\* of a map iteration aside
ValidateWorkflows(c) ==
    UNION {(IF c.workflows[w].pathsRegex # ""
               /\ ~ValidRegex(c.workflows[w].pathsRegex)
            THEN {LintError("invalid paths-regex", w)} ELSE {})
           \cup (IF c.workflows[w].pathsIgnoreRegex # ""
                    /\ ~ValidRegex(c.workflows[w].pathsIgnoreRegex)
                 THEN {LintError("invalid paths-ignore-regex", w)} ELSE {})
           \cup (IF c.workflows[w].pathsRegex # ""
                    /\ c.workflows[w].pathsIgnoreRegex # ""
                 THEN {LintError("both regexes", w)} ELSE {}) :
           w \in DOMAIN c.workflows}

ValidateRerun(c) ==
    IF c.rerun.present /\ c.rerun.maxRetries < 0
    THEN {LintError("negative max-retries", "rerun")} ELSE {}

ValidateStages(c) ==
    IF ~c.stagesConfig.present THEN {}
    ELSE UNION {(IF Len(c.stagesConfig.stages[i].workflows) = 0
                 THEN {LintError("stage without workflows", "stages")}
                 ELSE {})
                \cup (IF c.stagesConfig.stages[i].command = ""
                      THEN {LintError("stage without command", "stages")}
                      ELSE {}) :
                i \in 1..Len(c.stagesConfig.stages)}

\* validateConfig: the errors it returns, as a set; order and graphOrder
\* are the orders in which its two loops iterate the triggers map
validateConfig(c, order, graphOrder) ==
    SeqToSet(ValidateTriggers(c, order))
    \cup SeqToSet(ValidateGraph({}, DependencyEdges(c, graphOrder)))
    \cup ValidateWorkflows(c) \cup ValidateRerun(c) \cup ValidateStages(c)

\* the orders in which a map of keys S can be iterated
Orders(S) ==
    {o \in [1..Cardinality(S) -> S] :
        \A i, j \in 1..Cardinality(S) : i # j => o[i] # o[j]}

\* variant: B's teams are appended as they are
AppendTeams(a, b) == a \o b

\* the allowed teams of a merge: those of b that the list lacks are
\* appended one by one
RECURSIVE MergeTeams(_, _)
MergeTeams(a, b) ==
    IF b = <<>> THEN a
    ELSE IF Head(b) \in SeqToSet(a) THEN MergeTeams(a, Tail(b))
    ELSE MergeTeams(Append(a, Head(b)), Tail(b))

\* ArianeConfig.Merge; the depends-on lists of a shared phrase are joined
\* like its workflow lists
Merge(a, b) ==
    [triggers |->
        [p \in DOMAIN a.triggers \cup DOMAIN b.triggers |->
            IF p \in DOMAIN a.triggers /\ p \in DOMAIN b.triggers
            THEN TriggerConfig(a.triggers[p].workflows
                                 \o b.triggers[p].workflows,
                               a.triggers[p].dependsOn
                                 \o b.triggers[p].dependsOn)
            ELSE IF p \in DOMAIN a.triggers THEN a.triggers[p]
            ELSE b.triggers[p]],
     workflows |->
        [w \in DOMAIN a.workflows \cup DOMAIN b.workflows |->
            IF w \in DOMAIN b.workflows THEN b.workflows[w]
            ELSE a.workflows[w]],
     verbose |-> IF b.verbose THEN b.verbose ELSE a.verbose,
     workflowsReport |->
        IF b.workflowsReport THEN b.workflowsReport ELSE a.workflowsReport,
     rerun |-> IF b.rerun.present THEN b.rerun ELSE a.rerun,
     stagesConfig |->
        IF b.stagesConfig.present THEN b.stagesConfig ELSE a.stagesConfig,
     allowedTeams |-> MergeTeams(a.allowedTeams, b.allowedTeams)]

\* the documents handed to the linter together: a base configuration and
\* the one layered over it
BaseDocuments ==
    {WithAllowedTeams(ArianeConfig(t, w, <<FALSE, FALSE>>, NoRerunConfig,
                                   NoStagesConfig), teams) :
        t \in {NoTriggers,
               [p \in {"/t1"} |-> TriggerConfig(<<"a.yaml">>, <<>>)],
               [p \in {"/t1", "/t2"} |-> TriggerConfig(<<"a.yaml">>, <<>>)]},
        w \in {NoWorkflowsSection,
               [x \in {"a.yaml"} |-> PathsConfig("", "^docs/")]},
        teams \in {<<>>, <<"core">>, <<"core", "docs">>}}

LayeredDocuments ==
    {WithAllowedTeams(ArianeConfig(t, w, f, NoRerunConfig, NoStagesConfig),
                      teams) :
        t \in {NoTriggers,
               [p \in {"/t1", "/t3"} |->
                   IF p = "/t1" THEN TriggerConfig(<<"b.yaml">>, <<>>)
                   ELSE TriggerConfig(<<"c.yaml">>, <<>>)]},
        w \in {NoWorkflowsSection,
               [x \in {"a.yaml", "b.yaml"} |-> PathsConfig("^src/", "")]},
        f \in Feedbacks,
        teams \in {<<>>, <<"core", "ci">>, <<"ci", "ci">>, <<"docs", "ci", "core">>}}

Merged(a, b, c, errs) ==
    [kind |-> "merge", a |-> a, b |-> b, cfg |-> c, errs |-> errs]

\* the linter merges two valid documents and validates the result
LintMerged(a, b) ==
    /\ Idle
    /\ LET c == Merge(a, b) IN
       \E order \in Orders(DOMAIN c.triggers),
          graphOrder \in Orders(DOMAIN c.triggers) :
          delivery' = Merged(a, b, c, validateConfig(c, order, graphOrder))
    /\ UNCHANGED <<runs, comments, now, subtasks, asyncReqs, inflight,
                   failedRun, rerunCount, rerunCfg>>

LintPhrases == {"/t1", "/t2", "/t3"}

\* depends-on lists: defined triggers, an undefined one, a repeated one
LintDependsOn ==
    {<<>>, <<"/zz">>, <<"/t2", "/t2">>, <<"/t1", "/t2">>}
    \cup {<<p>> : p \in LintPhrases}

LintTriggers ==
    {t \in [LintPhrases -> {TriggerConfig(wfs, deps) :
                               wfs \in {<<"a.yaml">>},
                               deps \in LintDependsOn}] : TRUE}
    \cup {[p \in LintPhrases |-> TriggerConfig(<<>>, <<>>)]}

\* the rest of the configuration: in order, or with one mistake
LintRests ==
    {<<NoWorkflowsSection, NoRerunConfig, NoStagesConfig>>,
     <<DocsIgnored, RerunConfig(1, <<>>, <<>>),
       StagesConfig(StageLabel, Pipeline)>>,
     <<[w \in {"a.yaml"} |-> PathsConfig("^src/", "^docs/")], NoRerunConfig,
       NoStagesConfig>>,
     <<[w \in {"a.yaml"} |-> PathsConfig("(", "")], NoRerunConfig,
       NoStagesConfig>>,
     <<NoWorkflowsSection, RerunConfig(-1, <<>>, <<>>), NoStagesConfig>>,
     <<NoWorkflowsSection, NoRerunConfig,
       StagesConfig(StageLabel, <<Stage(<<>>, "")>>)>>}

\* the linter's verdict on one configuration
Linted(c, errs) == [kind |-> "lint", cfg |-> c, errs |-> errs]

\* the linter validates a configuration file
Lint(triggers, rest) ==
    /\ Idle
    /\ LET c == ArianeConfig(triggers, rest[1], <<FALSE, FALSE>>, rest[2],
                             rest[3])
       IN  \E order \in Orders(LintPhrases), graphOrder \in Orders(LintPhrases) :
              delivery' = Linted(c, validateConfig(c, order, graphOrder))
    /\ UNCHANGED <<runs, comments, now, subtasks, asyncReqs, inflight,
                   failedRun, rerunCount, rerunCfg>>

InitLint ==
    /\ runs = NoRuns
    /\ comments = <<>>
    /\ now = 0
    /\ delivery = NoDelivery
    /\ subtasks = <<>>
    /\ asyncReqs = <<>>
    /\ inflight = <<>>
    /\ failedRun = NoFailedRun
    /\ rerunCount = 0
    /\ rerunCfg = NoConfig

NextLint ==
    \/ \E triggers \in LintTriggers, rest \in LintRests : Lint(triggers, rest)
    \/ \E a \in BaseDocuments, b \in LayeredDocuments : LintMerged(a, b)
    \/ Finish

SpecLint == InitLint /\ [][NextLint]_vars

-----------------------------------------------------------------------------
(* The dependency gate of the decision engine over run histories *)

\* depends-on lists: a trigger of two workflows, two triggers of one
\* workflow each in both orders, and a trigger the configuration lacks
DependsOnLists == {<<"/default">>, <<"/test", "/lint">>, <<"/lint", "/test">>,
                   <<"/zz">>}

GateFaults == FaultSets({Call("list-runs", "a.yaml"), Call("list-runs", "b.yaml")})

\* a delivery together with what checkTriggerDependency returns for each
\* entry of the depends-on list
GateDelivery(d, checks) == [checks |-> checks] @@ d

\* a comment matching a trigger that depends on deps is delivered and handled
GateComment(deps) ==
    /\ Idle
    /\ \E c \in TriggerConfigs, faults \in GateFaults :
          LET m == Match(<<"/gated">>, <<"c.yaml">>, deps)
              out == PRCommentHandle(c, runs, m, <<"src/a.go">>, faults)
          IN  /\ delivery' =
                    GateDelivery(Delivery("issue_comment", c, "/gated", m, "",
                                          0, <<>>, <<"src/a.go">>, <<>>,
                                          faults, out),
                                 [i \in 1..Len(deps) |->
                                     checkTriggerDependency(c, runs, deps[i],
                                                            faults)])
              /\ subtasks' = out.spawn
    /\ asyncReqs' = <<>>
    /\ UNCHANGED <<runs, comments, now, inflight, failedRun, rerunCount,
                   rerunCfg>>

NextGate ==
    \/ \E w \in {"a.yaml", "b.yaml"}, r \in RunKinds : ForgeRun(w, r)
    \/ \E deps \in DependsOnLists : GateComment(deps)
    \/ Finish

SpecGate == Init /\ [][NextGate]_vars

-----------------------------------------------------------------------------
(* The path gate of the decision engine over changed-file lists *)

MaxFiles == 3

ChangedFiles == {"src/a.go", "docs/x.md"} \cup {WorkflowPath(w) : w \in {"a.yaml", "b.yaml"}}

ChangedFileLists ==
    UNION {[1..n -> ChangedFiles] : n \in 0..MaxFiles}

\* workflows: sections with an entry for a.yaml only
PathSections ==
    {NoWorkflowsSection} \cup
    {[w \in {"a.yaml"} |-> e] :
        e \in {PathsConfig("", "^docs/"), PathsConfig("^src/", ""),
               PathsConfig("^src/", "^docs/"), PathsConfig("", "")}}

Gated(c, w, files, run) ==
    [kind |-> "paths", cfg |-> c, wf |-> w, files |-> files, run |-> run]

\* the engine asks whether the changed files call for workflow w
PathGate(section, w, files) ==
    /\ Idle
    /\ LET c == ArianeConfig(Triggers, section, <<FALSE, FALSE>>,
                             NoRerunConfig, NoStagesConfig)
       IN  delivery' = Gated(c, w, files, shouldRunWorkflow(c, w, files))
    /\ UNCHANGED <<runs, comments, now, subtasks, asyncReqs, inflight,
                   failedRun, rerunCount, rerunCfg>>

InitPaths ==
    /\ runs = NoRuns
    /\ comments = <<>>
    /\ now = 0
    /\ delivery = NoDelivery
    /\ subtasks = <<>>
    /\ asyncReqs = <<>>
    /\ inflight = <<>>
    /\ failedRun = NoFailedRun
    /\ rerunCount = 0
    /\ rerunCfg = NoConfig

NextPaths ==
    \/ \E section \in PathSections, w \in {"a.yaml", "b.yaml"},
          files \in ChangedFileLists : PathGate(section, w, files)
    \/ Finish

SpecPaths == InitPaths /\ [][NextPaths]_vars

-----------------------------------------------------------------------------
(* Trigger comments under every combination of the feedback options *)

ReportConfigs ==
    {ArianeConfig(Triggers, DocsIgnored, <<v, r>>, NoRerunConfig,
                  NoStagesConfig) : v \in BOOLEAN, r \in BOOLEAN}

NextReport ==
    \/ \E w \in {"a.yaml", "b.yaml"}, r \in RunKinds : ForgeRun(w, r)
    \/ \E c \in ReportConfigs, files \in {<<"src/a.go">>, <<"docs/x.md">>} :
          IssueComment(c, defaultRunTrigger, files)
    \/ Finish

SpecReport == Init /\ [][NextReport]_vars

-----------------------------------------------------------------------------
(* The PR lookup of the comment and PR-lifecycle handlers *)

MaxAttempts == 3

RECURSIVE Pow2(_)
Pow2(n) == IF n = 0 THEN 1 ELSE 2 * Pow2(n - 1)

\* variant: the wait the first attempt being numbered 1 would give
BackoffFromOne(attempt) == Pow2(attempt)

\* time.Duration(math.Pow(2, float64(attempt-1))), in seconds: the
\* conversion to an integer truncates 2^-1
Backoff(attempt) == IF attempt = 0 THEN 0 ELSE Pow2(attempt - 1)

\* what the forge answers to the successive lookups of the PR
LookupAnswers == {"error", "open", "closed"}

Looked(lookups, sleeps, err) ==
    [lookups |-> lookups, sleeps |-> sleeps, err |-> err]

\* the loop of getPullRequest from the given attempt on; answers[attempt + 1]
\* is what the lookup of that attempt returns
RECURSIVE LookupLoop(_, _, _, _)
LookupLoop(answers, maxRetryAttempts, attempt, sleeps) ==
    IF attempt > maxRetryAttempts
    THEN Looked(attempt, sleeps, "pull request is not open")
    ELSE IF answers[attempt + 1] # "error"
    THEN Looked(attempt + 1, sleeps,
                IF answers[attempt + 1] # "open"
                THEN "pull request is not open" ELSE "")
    ELSE IF attempt < maxRetryAttempts
    THEN LookupLoop(answers, maxRetryAttempts, attempt + 1,
                    Append(sleeps, Backoff(attempt)))
    ELSE Looked(attempt + 1, sleeps, "failed to retrieve pull request")

\* variant: the state of the PR found is not looked at
getPullRequestAnyState(answers, maxRetryAttempts) ==
    LET l == LookupLoop(answers, maxRetryAttempts, 0, <<>>) IN
    Looked(l.lookups, l.sleeps,
           IF l.err = "pull request is not open" THEN "" ELSE l.err)

getPullRequest(answers, maxRetryAttempts) ==
    LookupLoop(answers, maxRetryAttempts, 0, <<>>)

LookedUp(answers, maxRetryAttempts, out) ==
    [kind |-> "get-pr", answers |-> answers,
     maxRetryAttempts |-> maxRetryAttempts, out |-> out]

\* a handler looks the PR of its event up
LookupPullRequest(answers, maxRetryAttempts) ==
    /\ Idle
    /\ delivery' = LookedUp(answers, maxRetryAttempts,
                            getPullRequest(answers, maxRetryAttempts))
    /\ UNCHANGED <<runs, comments, now, subtasks, asyncReqs, inflight,
                   failedRun, rerunCount, rerunCfg>>

NextLookup ==
    \/ \E maxRetryAttempts \in 0..MaxAttempts :
       \E answers \in [1..(maxRetryAttempts + 1) -> LookupAnswers] :
          LookupPullRequest(answers, maxRetryAttempts)
    \/ Finish

SpecLookup == Init /\ [][NextLookup]_vars

-----------------------------------------------------------------------------
(* The rerun goroutines of a trigger comment, each with the jobs it lists   *)
(* and the calls that fail in it kept in inflight once it has ended.        *)

AsyncFaults(w) ==
    FaultSets({Call("list-jobs", w), Call("rerun-job", w),
               Call("rerun-failed-jobs", w)})

Ended(w, jobs, faults, reqs) ==
    [wf |-> w, jobs |-> jobs, faults |-> faults, reqs |-> reqs]

\* one rerun goroutine of the delivery runs to its end
AsyncRerun(i, jobs) ==
    /\ i \in 1..Len(subtasks)
    /\ LET w == subtasks[i] IN
       \E faults \in AsyncFaults(w) :
          LET reqs == rerunFailedJobsTask(w, jobs, faults) IN
          /\ asyncReqs' = asyncReqs \o reqs
          /\ inflight' = Append(inflight, Ended(w, jobs, faults, reqs))
    /\ subtasks' = SubSeq(subtasks, 1, i - 1)
                   \o SubSeq(subtasks, i + 1, Len(subtasks))
    /\ UNCHANGED <<runs, comments, now, delivery, failedRun, rerunCount,
                   rerunCfg>>

\* the record of the delivery and of its goroutines is dropped
AsyncFinish ==
    /\ ~Idle
    /\ delivery' = NoDelivery
    /\ subtasks' = <<>>
    /\ asyncReqs' = <<>>
    /\ inflight' = <<>>
    /\ UNCHANGED <<runs, comments, now, failedRun, rerunCount, rerunCfg>>

NextAsync ==
    \/ \E w \in {"a.yaml", "b.yaml"},
          r \in {Run("completed", "failure"), Run("completed", "success")} :
          ForgeRun(w, r)
    \/ \E c \in TriggerConfigs :
          IssueComment(c, defaultRunTrigger, <<"src/a.go">>)
    \/ \E i \in 1..MaxRecords, jobs \in JobLists : AsyncRerun(i, jobs)
    \/ AsyncFinish

SpecAsync == Init /\ [][NextAsync]_vars

-----------------------------------------------------------------------------
(* Success deliveries for a workflow that two stages list. *)

\* a.yaml belongs to both stages, in either order of declaration
SharedStages ==
    {<<Stage(<<"a.yaml", "b.yaml">>, "/e2e"), Stage(<<"a.yaml">>, "/release")>>,
     <<Stage(<<"a.yaml">>, "/release"), Stage(<<"a.yaml", "b.yaml">>, "/e2e")>>}

SharedConfigs ==
    {ArianeConfig(Triggers, NoWorkflowsSection, <<FALSE, FALSE>>,
                  NoRerunConfig, StagesConfig(StageLabel, st)) :
        st \in SharedStages}

\* a completed run of w with conclusion success is delivered for a PR that
\* carries the stage label; the run listings and the posts can fail
SharedRunSuccess(c, w) ==
    /\ Idle
    /\ \E i \in 1..Len(runs[w]) : runs[w][i] = Run("completed", "success")
    /\ \E order \in TriggerOrders(c) :
       \E faults \in FaultSets({Call("list-runs", "a.yaml"),
                                Call("list-runs", "b.yaml"),
                                Call("comment", "/e2e"),
                                Call("comment", "/release")}) :
          delivery' = Delivery("workflow_run_success", c, "", NoMatch, w, 0,
                               <<>>, <<>>, <<StageLabel>>, faults,
                               handleSuccessfulRun(c, runs, order,
                                                   WorkflowPath(w),
                                                   <<StageLabel>>, comments,
                                                   now, faults))
    /\ subtasks' = <<>>
    /\ asyncReqs' = <<>>
    /\ UNCHANGED <<runs, comments, now, inflight, failedRun, rerunCount,
                   rerunCfg>>

NextStages ==
    \/ \E w \in {"a.yaml", "b.yaml"},
          r \in {Run("completed", "success"), Run("completed", "failure")} :
          ForgeRun(w, r)
    \/ \E c \in SharedConfigs, w \in {"a.yaml", "b.yaml"} :
          SharedRunSuccess(c, w)
    \/ Finish

SpecStages == InitSuccess /\ [][NextStages]_vars

-----------------------------------------------------------------------------
(* PR-lifecycle deliveries with their action, the user who caused them and *)
(* the team memberships the forge would report for that user.              *)

PullRequestActions == allowedActions \cup {"closed", "edited", "labeled"}

\* the triggers without /default
OnlyTest == [p \in {"/test"} |-> Triggers[p]]

LifecycleConfigs ==
    ActorConfigs
    \cup {WithAllowedTeams(ArianeConfig(OnlyTest, NoWorkflowsSection,
                                        <<FALSE, FALSE>>,
                                        RerunConfig(1, <<>>, <<>>),
                                        NoStagesConfig), <<"core">>)}

\* a pull_request event caused by login is delivered and handled
LifecycleEvent(c, action, login, membership) ==
    /\ Idle
    /\ \E m \in CheckForTrigger(c, defaultRunTrigger) :
       \E faults \in FaultSets({Call("get-pr", "1"), Call("get-config", "")}) :
          LET out == PullRequestEvent(action, c, runs, m, <<"src/a.go">>,
                                      faults)
          IN  /\ delivery' =
                    [action |-> action] @@
                    ActorDelivery(Delivery("pull_request", c,
                                           defaultRunTrigger, m, "", 0, <<>>,
                                           <<"src/a.go">>, <<>>, faults, out),
                                  login, <<>>, membership, "")
              /\ subtasks' = out.spawn
    /\ asyncReqs' = <<>>
    /\ UNCHANGED <<runs, comments, now, inflight, failedRun, rerunCount,
                   rerunCfg>>

NextLifecycle ==
    \/ \E c \in LifecycleConfigs, action \in PullRequestActions,
          login \in Logins, membership \in Memberships :
          LifecycleEvent(c, action, login, membership)
    \/ Finish

SpecLifecycle == InitActor /\ [][NextLifecycle]_vars

-----------------------------------------------------------------------------
(* Success deliveries for a workflow that several dependencies of several  *)
(* triggers own.                                                           *)

\* a.yaml belongs to /test and to /lint; /deploy and /run depend on both
SharedDependencies ==
    [p \in {"/test", "/lint", "/deploy", "/run"} |->
        CASE p = "/test"   -> TriggerConfig(<<"a.yaml">>, <<>>)
          [] p = "/lint"   -> TriggerConfig(<<"a.yaml", "a.yaml">>, <<>>)
          [] p = "/deploy" -> TriggerConfig(<<"c.yaml">>, <<"/test", "/lint">>)
          [] p = "/run"    -> TriggerConfig(<<"b.yaml">>, <<"/lint", "/test">>)]

SharedChainConfig ==
    ArianeConfig(SharedDependencies, NoWorkflowsSection, <<FALSE, FALSE>>,
                 NoRerunConfig, NoStagesConfig)

ChainBodies == {"/deploy now", "/run --focus"}

\* two times inside the lookback and before the cutoff, and a recent one
ChainTimes == {StartTime - 150, StartTime - 100, StartTime - 10}

\* a completed run of a.yaml with conclusion success is delivered; the run
\* listing, the comment listing and the posts can fail
ChainedRunSuccess(c) ==
    /\ Idle
    /\ \E i \in 1..Len(runs["a.yaml"]) :
          runs["a.yaml"][i] = Run("completed", "success")
    /\ \E order \in TriggerOrders(c) :
       \E faults \in FaultSets({Call("list-runs", "a.yaml"),
                                Call("list-comments", "")}
                               \cup {Call("comment", b) : b \in ChainBodies}) :
          delivery' = Delivery("workflow_run_success", c, "", NoMatch,
                               "a.yaml", 0, <<>>, <<>>, <<>>, faults,
                               handleSuccessfulRun(c, runs, order,
                                                   WorkflowPath("a.yaml"),
                                                   <<>>, comments, now,
                                                   faults))
    /\ subtasks' = <<>>
    /\ asyncReqs' = <<>>
    /\ UNCHANGED <<runs, comments, now, inflight, failedRun, rerunCount,
                   rerunCfg>>

NextChain ==
    \/ \E r \in {Run("completed", "success"), Run("completed", "failure")} :
          ForgeRun("a.yaml", r)
    \/ \E body \in ChainBodies, created \in ChainTimes :
          ForgeComment(body, created)
    \/ ChainedRunSuccess(SharedChainConfig)
    \/ Finish

SpecChain == InitSuccess /\ [][NextChain]_vars

-----------------------------------------------------------------------------
(* Comment and PR-lifecycle deliveries for PRs that are open or closed,    *)
(* the lookups of the PR failing or answering with its state.              *)

LookupRetries == 1

PullRequestStates == {"open", "closed"}

\* what the successive lookups of a PR in the given state return
StateAnswers(state, maxRetryAttempts) ==
    {[i \in 1..(maxRetryAttempts + 1) |-> IF errs[i] THEN "error" ELSE state] :
        errs \in [1..(maxRetryAttempts + 1) -> BOOLEAN]}

\* the calls that fail in the delivery, the lookup of the PR being one of
\* them when getPullRequest returns an error
WithLookup(faults, l) ==
    IF l.err # "" THEN faults \cup {Call("get-pr", "1")}
    ELSE faults \ {Call("get-pr", "1")}

\* a delivery with the state of its PR and what getPullRequest returned
StateDelivery(d, state, action, l) ==
    [state |-> state, action |-> action, lookup |-> l] @@ d

\* a comment of login on a PR in the given state is delivered and handled
StateComment(c, login, body, state) ==
    /\ Idle
    /\ \E m \in CheckForTrigger(c, body) :
       \E answers \in StateAnswers(state, LookupRetries) :
       \E other \in FaultSets({Call("get-config", ""),
                               Call("reaction", "eyes")}) :
          LET l == getPullRequest(answers, LookupRetries)
              faults == WithLookup(other, l)
              out == PRCommentHandlerHandle(c, login, NoMembership, runs,
                                            body, m, <<"src/a.go">>, faults)
          IN  /\ delivery' =
                    StateDelivery(
                       ActorDelivery(Delivery("issue_comment", c, body, m, "",
                                              0, <<>>, <<"src/a.go">>, <<>>,
                                              faults, out),
                                     login, <<>>, NoMembership, ""),
                       state, "created", l)
              /\ subtasks' = out.spawn
    /\ asyncReqs' = <<>>
    /\ UNCHANGED <<runs, comments, now, inflight, failedRun, rerunCount,
                   rerunCfg>>

\* a pull_request event of a PR in the given state is delivered and handled
StatePullRequest(c, action, state) ==
    /\ Idle
    /\ \E m \in CheckForTrigger(c, defaultRunTrigger) :
       \E answers \in StateAnswers(state, LookupRetries) :
       \E other \in FaultSets({Call("get-config", ""),
                               Call("reaction", "eyes")}) :
          LET l == getPullRequest(answers, LookupRetries)
              faults == WithLookup(other, l)
              out == PullRequestEvent(action, c, runs, m, <<"src/a.go">>,
                                      faults)
          IN  /\ delivery' =
                    StateDelivery(
                       ActorDelivery(Delivery("pull_request", c,
                                              defaultRunTrigger, m, "", 0,
                                              <<>>, <<"src/a.go">>, <<>>,
                                              faults, out),
                                     "", <<>>, NoMembership, ""),
                       state, action, l)
              /\ subtasks' = out.spawn
    /\ asyncReqs' = <<>>
    /\ UNCHANGED <<runs, comments, now, inflight, failedRun, rerunCount,
                   rerunCfg>>

NextState ==
    \/ \E c \in ActorConfigs, login \in Logins, body \in ActorBodies,
          state \in PullRequestStates : StateComment(c, login, body, state)
    \/ \E c \in ActorConfigs, action \in PullRequestActions,
          state \in PullRequestStates : StatePullRequest(c, action, state)
    \/ Finish

SpecState == InitActor /\ [][NextState]_vars

-----------------------------------------------------------------------------
(* Properties of comment and PR-lifecycle deliveries *)

TriggerDelivery ==
    /\ delivery.kind \in {"issue_comment", "pull_request"}
    /\ delivery.match # NoMatch

\* the requests of the delivery with the given operation
Requests(reqs, op) == {i \in 1..Len(reqs) : reqs[i].op = op}

Requested(reqs, op, target) ==
    \E i \in 1..Len(reqs) : reqs[i] = Call(op, target)

\* the run-history query for w answered, and the most recent run it
\* reported is completed with conclusion success or skipped
LatestRunPassed(w) ==
    /\ ~Failed(delivery.faults, "list-runs", w)
    /\ Len(runs[w]) > 0
    /\ runs[w][1].status = "completed"
    /\ runs[w][1].conclusion \in {"success", "skipped"}

\* C1: in a comment or PR-lifecycle delivery, a selected workflow whose
\* most recent run at the head SHA is reported completed with conclusion
\* success or skipped is neither dispatched nor given a skipped check run;
\* when that holds for every workflow of the matched trigger, the delivery
\* issues no dispatch and no check-run creation at all.
C1_CompletedWorkflowNotRedispatched ==
    TriggerDelivery =>
        LET wfs == SeqToSet(delivery.match.workflows) IN
        /\ \A w \in wfs :
              LatestRunPassed(w) =>
                 /\ ~Requested(delivery.out.reqs, "dispatch", w)
                 /\ ~Requested(delivery.out.reqs, "check-run", w)
        /\ (\A w \in wfs : LatestRunPassed(w)) =>
              /\ Requests(delivery.out.reqs, "dispatch") = {}
              /\ Requests(delivery.out.reqs, "check-run") = {}

\* a two-workflow trigger, one workflow last succeeded and the other last
\* skipped, handled to the end with nothing dispatched
C1_Witness ==
    /\ TriggerDelivery
    /\ delivery.match.workflows = <<"a.yaml", "b.yaml">>
    /\ runs["a.yaml"] = <<Run("completed", "success")>>
    /\ runs["b.yaml"] = <<Run("completed", "skipped")>>
    /\ delivery.faults = {}
    /\ delivery.out.reqs = <<Call("reaction", "eyes"),
                             Call("reaction", "rocket")>>

\* the dependency named by the matched trigger is configured and the most
\* recent run of each of its workflows concluded success or skipped
DependencyMet(c, dep) ==
    /\ dep \in DOMAIN c.triggers
    /\ \A w \in SeqToSet(c.triggers[dep].workflows) :
          /\ Len(runs[w]) > 0
          /\ runs[w][1].conclusion \in {"success", "skipped"}

GateMet ==
    \A i \in 1..Len(delivery.match.dependsOn) :
        DependencyMet(delivery.cfg, delivery.match.dependsOn[i])

GateQueryFailed ==
    \E w \in DependencyWorkflows(delivery.cfg, delivery.match) :
        Failed(delivery.faults, "list-runs", w)

GateErrors == {"failed to check trigger dependency",
               "dependency is still in progress",
               "dependency has not completed successfully"}

\* C2: a delivery whose matched trigger has a non-empty depends-on list
\* issues a dispatch or a skipped check run only if every workflow of every
\* predecessor trigger has a latest run at the head SHA with conclusion
\* success or skipped; when the gate fails or its query errors, the trigger
\* processing returns an error and issues neither.
C2_DependencyGate ==
    (TriggerDelivery /\ Len(delivery.match.dependsOn) > 0
        /\ ~Failed(delivery.faults, "reaction", "eyes")) =>
        /\ (Requests(delivery.out.reqs, "dispatch") # {}
             \/ Requests(delivery.out.reqs, "check-run") # {}) => GateMet
        /\ (~GateMet \/ GateQueryFailed) =>
              /\ delivery.out.err \in GateErrors
              /\ Requests(delivery.out.reqs, "dispatch") = {}
              /\ Requests(delivery.out.reqs, "check-run") = {}

\* /deploy is commented while /test has passed and /lint is still running
C2_Witness ==
    /\ TriggerDelivery
    /\ delivery.match.submatch = <<"/deploy">>
    /\ runs["a.yaml"] = <<Run("completed", "success")>>
    /\ runs["b.yaml"] = <<Run("in_progress", "")>>
    /\ delivery.faults = {}
    /\ delivery.out.err = "dependency is still in progress"
    /\ delivery.out.reqs = <<Call("reaction", "eyes")>>

RerunOps == {"rerun-failed-jobs", "rerun-job"}

RerunRequests(reqs) == {i \in 1..Len(reqs) : reqs[i].op \in RerunOps}

\* C9, as claimed: with rerun.max-retries = 0 no rerun request of either
\* kind is ever issued by the service, whatever the delivery.
C9_NoRerunAtAllWithZeroRetries ==
    (delivery.kind # "none" /\ delivery.cfg.rerun.present
        /\ delivery.cfg.rerun.maxRetries = 0) =>
        /\ RerunRequests(delivery.out.reqs) = {}
        /\ RerunRequests(asyncReqs) = {}

\* C9, amended: with rerun.max-retries = 0 the workflow-run failure path
\* issues no rerun request of either kind.
C9_NoRerunOnFailureEventWithZeroRetries ==
    (delivery.kind = "workflow_run_failure" /\ delivery.cfg.rerun.present
        /\ delivery.cfg.rerun.maxRetries = 0) =>
        /\ RerunRequests(delivery.out.reqs) = {}
        /\ RerunRequests(asyncReqs) = {}
        /\ subtasks = <<>>

\* a first-attempt failure with a failed job, every forge call answering,
\* under max-retries = 0: handled without a request
C9_Witness ==
    /\ delivery.kind = "workflow_run_failure"
    /\ delivery.cfg.rerun.present
    /\ delivery.cfg.rerun.maxRetries = 0
    /\ delivery.runAttempt = 1
    /\ delivery.jobs = <<Job("build", "failure")>>
    /\ delivery.faults = {}
    /\ delivery.out = NoOutcome

-----------------------------------------------------------------------------
(* Properties of the retries of a failed run *)

\* C8: on a workflow-run failure event for a workflow eligible for rerun,
\* when the run's attempt number exceeds rerun.max-retries no
\* rerun-failed-jobs request is issued.
C8_NoRerunBeyondMaxRetries ==
    (delivery.kind = "workflow_run_failure"
        /\ RerunEligible(delivery.cfg, WorkflowPath(delivery.wf))
        /\ delivery.runAttempt > delivery.cfg.rerun.maxRetries) =>
        Requests(delivery.out.reqs, "rerun-failed-jobs") = {}

\* the second attempt of an allowed workflow fails under max-retries = 1,
\* a job has failed and every forge call answers
C8_Witness ==
    /\ delivery.kind = "workflow_run_failure"
    /\ delivery.wf = "a.yaml"
    /\ delivery.cfg.rerun = RerunConfig(1, <<"a.yaml">>, <<"b.yaml">>)
    /\ delivery.runAttempt = 2
    /\ delivery.jobs = <<Job("build", "failure")>>
    /\ delivery.faults = {}
    /\ delivery.out.reqs = <<>>
    /\ rerunCount = 1

\* C10: for a given run, whatever the sequence of failure events, the
\* failure-event path issues at most rerun.max-retries rerun-failed-jobs
\* requests, every accepted request starting the next attempt.
C10_AtMostMaxRetriesReruns ==
    rerunCount <= (IF rerunCfg.rerun.present THEN rerunCfg.rerun.maxRetries
                   ELSE 0)

\* max-retries reruns were issued and the failure of the attempt after the
\* last of them was handled without a request
C10_Witness ==
    /\ rerunCfg.rerun.present
    /\ rerunCfg.rerun.maxRetries = MaxRetriesCfg
    /\ rerunCount = MaxRetriesCfg
    /\ delivery.kind = "workflow_run_failure"
    /\ delivery.runAttempt = MaxRetriesCfg + 1
    /\ delivery.jobs = <<Job("build", "failure")>>
    /\ delivery.faults = {}
    /\ delivery.out.reqs = <<>>

-----------------------------------------------------------------------------
(* Properties of workflow-run success deliveries *)

SuccessDelivery == delivery.kind = "workflow_run_success"

HasSuccessfulRun(w) ==
    \E i \in 1..Len(runs[w]) : runs[w][i].conclusion = "success"

\* the comment requests of the delivery that post the stage's command
StagePosts(st) ==
    {i \in Requests(delivery.out.reqs, "comment") :
        delivery.out.reqs[i].target = st.command}

StageLabelCarried ==
    /\ delivery.cfg.stagesConfig.present
    /\ delivery.cfg.stagesConfig.label # ""
    /\ delivery.cfg.stagesConfig.label \in SeqToSet(delivery.labels)

\* C3: the stage chainer posts a stage's command only if stages-config is
\* present with a non-empty label, the PR carries the label, the stage
\* lists the completed workflow, and every workflow of the stage has at
\* least one successful run at the head SHA (a stage workflow without any
\* run means nothing is posted).
C3_StagePostedOnlyWhenAllSucceeded ==
    SuccessDelivery =>
        \A k \in 1..Len(delivery.cfg.stagesConfig.stages) :
            LET st == delivery.cfg.stagesConfig.stages[k] IN
            StagePosts(st) # {} =>
                /\ StageLabelCarried
                /\ delivery.wf \in SeqToSet(st.workflows)
                /\ \A w \in SeqToSet(st.workflows) : HasSuccessfulRun(w)

\* C4: when the PR carries the stage label and the success event is for a
\* workflow of a stage all of whose workflows have a successful run at the
\* head SHA, the stage's command is posted exactly once for the event.
C4_StagePostedExactlyOnce ==
    (SuccessDelivery /\ StageLabelCarried /\ delivery.faults = {}) =>
        \A k \in 1..Len(delivery.cfg.stagesConfig.stages) :
            LET st == delivery.cfg.stagesConfig.stages[k] IN
            (/\ delivery.wf \in SeqToSet(st.workflows)
             /\ \A w \in SeqToSet(st.workflows) : HasSuccessfulRun(w)) =>
                Cardinality(StagePosts(st)) = 1

DependentTriggers(c) ==
    {p \in DOMAIN c.triggers : Len(c.triggers[p].dependsOn) > 0}

\* the comment requests of the delivery whose body matches the phrase
ChainPosts(p) ==
    {i \in Requests(delivery.out.reqs, "comment") :
        RegexMatch(p, delivery.out.reqs[i].target)}

\* a dependency of p owns the completed workflow and passes the gate, its
\* run-history queries answering
DependencyCheckPassed(p) ==
    \E i \in 1..Len(delivery.cfg.triggers[p].dependsOn) :
        LET dep == delivery.cfg.triggers[p].dependsOn[i] IN
        /\ dep \in DOMAIN delivery.cfg.triggers
        /\ delivery.wf \in SeqToSet(delivery.cfg.triggers[dep].workflows)
        /\ DependencyMet(delivery.cfg, dep)
        /\ \A w \in SeqToSet(delivery.cfg.triggers[dep].workflows) :
              ~Failed(delivery.faults, "list-runs", w)

\* the PR comments of the last three hours matching the phrase
MatchingComments(p) ==
    {i \in 1..Len(comments) :
        /\ comments[i].created >= now + commentSince
        /\ RegexMatch(p, comments[i].body)}

RecentMatchingComments(p) ==
    {i \in MatchingComments(p) : comments[i].created > now + recentCutoff}

\* C5: for a trigger whose dependency check passed, the dependent chainer
\* posts a comment iff the fetched PR comments of the last three hours
\* contain a comment matching the trigger's phrase and none of the matching
\* ones was created within the last fifteen minutes; what it posts is the
\* body of a matching comment.
C5_RepostIffOldMatchAndNoRecent ==
    SuccessDelivery =>
        \A p \in DependentTriggers(delivery.cfg) :
            DependencyCheckPassed(p) =>
                /\ ChainPosts(p) # {} <=>
                      /\ ~Failed(delivery.faults, "list-comments", "")
                      /\ MatchingComments(p) # {}
                      /\ RecentMatchingComments(p) = {}
                /\ \A i \in ChainPosts(p) :
                      \E j \in MatchingComments(p) :
                          delivery.out.reqs[i].target = comments[j].body

\* a.yaml succeeds, /deploy now was commented 100 minutes ago and an
\* unrelated comment 10 minutes ago: the old body is posted again
C5_Witness ==
    /\ SuccessDelivery
    /\ delivery.wf = "a.yaml"
    /\ delivery.faults = {}
    /\ comments = <<Comment("/deploy now", 100, "user"),
                    Comment("lgtm", 190, "user")>>
    /\ delivery.out.reqs = <<Call("comment", "/deploy now")>>

\* C7: the dependent chainer posts a trigger's phrase only if all of the
\* trigger's depends-on predecessors satisfy the dependency gate, not only
\* the predecessor owning the completed workflow.
C7_RepostOnlyWhenAllPredecessorsPassed ==
    SuccessDelivery =>
        \A p \in DependentTriggers(delivery.cfg) :
            ChainPosts(p) # {} =>
                \A i \in 1..Len(delivery.cfg.triggers[p].dependsOn) :
                    DependencyMet(delivery.cfg,
                                  delivery.cfg.triggers[p].dependsOn[i])

-----------------------------------------------------------------------------
(* Properties of concurrent success deliveries *)

\* the phrase of /deploy was commented by a user within the lookback and
\* before the anti-spam cutoff: a re-post is due
RepostDue ==
    /\ comments # <<>>
    /\ comments[1].by = "user"
    /\ RegexMatch("/deploy", comments[1].body)
    /\ comments[1].created >= StartTime + commentSince
    /\ comments[1].created <= StartTime + recentCutoff

\* C6: when two success events that both satisfy the dependencies of a
\* trigger are handled within fifteen minutes of each other, in every
\* interleaving of the two deliveries the trigger's phrase is posted again
\* exactly once.
C6_RepostedExactlyOnce ==
    (RepostDue /\ \A d \in 1..2 : inflight[d].pc = "done") =>
        Cardinality({i \in 1..Len(comments) : comments[i].by = "app"}) = 1

-----------------------------------------------------------------------------
(* Properties of the rerun lists *)

FailureDelivery == delivery.kind = "workflow_run_failure"

\* some entry of the list is a substring of the delivery's workflow path
ListMatchesPath(list) ==
    \E i \in 1..Len(list) :
        StringsContains(WorkflowPath(delivery.wf), list[i])

\* nothing but the lists stands between the failure and a rerun: the attempt
\* is within max-retries, a job has failed and every forge call answers
RerunOtherwiseDue ==
    /\ FailureDelivery
    /\ delivery.cfg.rerun.present
    /\ delivery.runAttempt <= delivery.cfg.rerun.maxRetries
    /\ \E i \in 1..Len(delivery.jobs) : delivery.jobs[i].conclusion = "failure"
    /\ delivery.faults = {}

\* C11: on a workflow-run failure event, when an entry of
\* rerun.exclude-workflows is a substring of the workflow path no rerun is
\* issued, even when the path also matches an entry of rerun.workflows.
C11_ExcludeListTakesPrecedence ==
    (FailureDelivery /\ delivery.cfg.rerun.present
        /\ ListMatchesPath(delivery.cfg.rerun.excludeWorkflows)) =>
        /\ RerunRequests(delivery.out.reqs) = {}
        /\ delivery.out.err = ""

\* the path of b.yaml contains the excluded "workflows" and the allowed
\* "b.yaml"; the failure is handled without a request
C11_Witness ==
    /\ RerunOtherwiseDue
    /\ delivery.wf = "b.yaml"
    /\ delivery.cfg.rerun.workflows = <<"b.yaml", ".yaml">>
    /\ delivery.cfg.rerun.excludeWorkflows = <<"workflows">>
    /\ delivery.out = NoOutcome

-----------------------------------------------------------------------------
(* Properties of the authorization of actors *)

CommandDelivery ==
    delivery.kind = "issue_comment" /\ delivery.body \in SlashBodies

\* requests that start, skip or rerun a workflow, or react to a comment
ActingOps == {"dispatch", "check-run", "reaction"} \cup RerunOps

Acts(out) == \E i \in 1..Len(out.reqs) : out.reqs[i].op \in ActingOps

\* nothing but the PR and the configuration stands between the author and
\* the trigger
TriggerReached ==
    /\ delivery.match # NoMatch
    /\ delivery.faults = {}

FirstActive(teams, membership) ==
    IF \E i \in 1..Len(teams) : membership[teams[i]] = "active"
    THEN CHOOSE i \in 1..Len(teams) :
            /\ membership[teams[i]] = "active"
            /\ \A j \in 1..(i - 1) : membership[teams[j]] # "active"
    ELSE 0

\* C15: isAllowedTeamMember returns true when allowed-teams is empty;
\* otherwise it returns true iff, in list order, a team with an active
\* membership is reached before any query fails with a non-404 error: 404s
\* and non-active memberships are passed over, a non-404 error or the end
\* of the list returns false.
C15_TeamMembership ==
    delivery.kind \in {"issue_comment", "workflow_run"} =>
        LET teams == delivery.cfg.allowedTeams
            first == FirstActive(teams, delivery.membership)
        IN  delivery.allowed =
               \/ teams = <<>>
               \/ /\ first > 0
                  /\ \A j \in 1..(first - 1) :
                        delivery.membership[teams[j]] \in {"404", "pending"}

\* the first team answers 404 and the second reports an active membership
C15_Witness ==
    /\ delivery.kind = "issue_comment"
    /\ delivery.cfg.allowedTeams = <<"core", "ci">>
    /\ delivery.membership["core"] = "404"
    /\ delivery.membership["ci"] = "active"
    /\ delivery.allowed

\* the author of the '/' comment is a bot outside the bot convention
UnsupportedBot ==
    /\ CommandDelivery
    /\ StringsHasSuffix(delivery.actor, "[bot]")
    /\ ~StringsHasPrefix(delivery.actor, repositoryOwner)

\* the author of the '/' comment is no bot and no allowed team member
NotAMember ==
    /\ CommandDelivery
    /\ ~StringsHasSuffix(delivery.actor, "[bot]")
    /\ ~delivery.allowed

CommentsPosted(out) == Requests(out.reqs, "comment") # {}

\* C16 as stated: a comment delivery of an unauthorized actor produces no
\* dispatch, check run or reaction, returns no error, and posts a comment
\* only when verbose is enabled.
C16_UnauthorizedDroppedSilently ==
    (UnsupportedBot \/ NotAMember) =>
        /\ ~Acts(delivery.out)
        /\ delivery.out.err = ""
        /\ CommentsPosted(delivery.out) => GetVerbose(delivery.cfg)

\* C16 as the handler has it: an unauthorized actor's comment never leads
\* to a dispatch, check run, rerun or reaction.  A bot outside the
\* convention is answered with one comment whatever verbose is, and the
\* handler returns nil.  A non-member, once the PR and the configuration
\* are retrieved, is answered with one comment when verbose is enabled and
\* with nothing otherwise, and the handler returns nil.
C16_UnauthorizedDropped ==
    /\ (UnsupportedBot \/ NotAMember) =>
          ~Acts(delivery.out) /\ subtasks = <<>> /\ asyncReqs = <<>>
    /\ UnsupportedBot =>
          /\ delivery.out.err = ""
          /\ delivery.out.reqs =
                <<Call("comment",
                       "Issue comment was created by an unsupported bot")>>
    /\ (/\ NotAMember
        /\ Call("get-pr", "1") \notin delivery.faults
        /\ Call("get-config", "") \notin delivery.faults) =>
          /\ delivery.out.err = ""
          /\ delivery.out.reqs =
                IF GetVerbose(delivery.cfg)
                THEN <<Call("comment", "Comment not allowed")>> ELSE <<>>

\* a trigger comment of a user no team admits, dropped without a comment
C16_Witness ==
    /\ NotAMember
    /\ TriggerReached
    /\ ~GetVerbose(delivery.cfg)
    /\ \E t \in Teams : delivery.membership[t] = "active"
    /\ delivery.out = NoOutcome

\* the login follows the bot convention of the repository
ConventionBot(login) ==
    /\ StringsHasPrefix(login, repositoryOwner)
    /\ StringsHasSuffix(login, "[bot]")

\* C17: the workflow-run handler processes a completed run only when the
\* associated PR was created by a bot of the repository owner: when no PR
\* of the run has such a creator, the delivery posts no comment and
\* requests no rerun.
C17_OnlyBotCreatedPRsProcessed ==
    (/\ delivery.kind = "workflow_run"
     /\ \A i \in 1..Len(delivery.creators) :
           ~ConventionBot(delivery.creators[i])) =>
        /\ Requests(delivery.out.reqs, "comment") = {}
        /\ RerunRequests(delivery.out.reqs) = {}

-----------------------------------------------------------------------------
(* Properties of trigger comments on an unchanged head *)

CommentTrigger ==
    delivery.kind = "issue_comment" /\ delivery.match # NoMatch

\* the run-history query for w answered, and the most recent run of w at
\* the head is completed with conclusion success, skipped or failure
LatestRunConcluded(w) ==
    /\ ~Failed(delivery.faults, "list-runs", w)
    /\ Len(runs[w]) > 0
    /\ runs[w][1].status = "completed"
    /\ runs[w][1].conclusion \in {"success", "skipped", "failure"}

-----------------------------------------------------------------------------
(* Properties of the context ref and the dispatch request *)

ContextDelivered ==
    delivery.kind \in {"issue_comment", "pull_request"}

DispatchesSent ==
    {delivery.out.reqs[i] : i \in Requests(delivery.out.reqs, "dispatch")}

\* the head repository of the PR is another one than the event's
FromFork ==
    delivery.pr.headRepo # Repo(repositoryOwner, repositoryName)

\* the ref the claim names for the PR of the delivery
ExpectedRef ==
    IF FromFork THEN delivery.pr.baseRef ELSE delivery.pr.headRef

\* C19: for a PR whose head repository differs from the event's repository
\* the configuration is loaded from the PR's base ref and every workflow
\* dispatch of the delivery is made against the base ref; for a PR of the
\* repository itself the head ref is used for both.
C19_ContextRef ==
    ContextDelivered =>
        /\ delivery.configRef = ExpectedRef
        /\ delivery.cfg = ConfigFiles[ExpectedRef]
        /\ \A r \in DispatchesSent : r.event.ref = ExpectedRef

\* a fork with the name of the repository under another owner: the base
\* branch's trigger decides and its workflows are dispatched at main
C19_Witness ==
    /\ ContextDelivered
    /\ delivery.pr.headRepo = Repo("alice", repositoryName)
    /\ delivery.cfg.triggers = BaseTriggers
    /\ Cardinality(Requests(delivery.out.reqs, "dispatch")) = 2
    /\ \A r \in DispatchesSent : r.event.ref = "main"

\* the decimal numerals of the PR numbers
NumberText(n) ==
    CASE n = 7 -> "7" [] n = 42 -> "42" [] n = 1234 -> "1234"

\* the JSON string literals of the captured texts
JsonText(t) ==
    CASE t = "" -> "\"\""
      [] t = "--focus" -> "\"--focus\""
      [] t = "a\"b" -> "\"a\\\"b\""
      [] t = "<x>" -> "\"\\u003cx\\u003e\""

\* what the first capture group of the matched trigger captured
FirstGroup ==
    IF Len(BodyWords(delivery.body)) > 1 THEN BodyWords(delivery.body)[2]
    ELSE ""

\* C20: every workflow-dispatch request carries the inputs PR-number (the
\* PR number as a decimal string), context-ref, SHA and base-SHA, and
\* carries extra-args iff the matched trigger has at least one capture
\* group, its value being the JSON encoding of the first captured group.
C20_DispatchInputs ==
    ContextDelivered =>
        \A r \in DispatchesSent :
            LET inputs == r.event.inputs
                groups == CaptureGroups(delivery.match.submatch[1])
            IN  /\ {"PR-number", "context-ref", "SHA", "base-SHA"}
                      \subseteq DOMAIN inputs
                /\ inputs["PR-number"] = NumberText(delivery.pr.number)
                /\ inputs["context-ref"] = r.event.ref
                /\ inputs["SHA"] = delivery.pr.headSHA
                /\ inputs["base-SHA"] = delivery.pr.baseSHA
                /\ "extra-args" \in DOMAIN inputs <=> groups >= 1
                /\ groups >= 1 => inputs["extra-args"] = JsonText(FirstGroup)

\* a trigger comment whose argument holds a double quote, dispatched for
\* a PR with a four-digit number
C20_Witness ==
    /\ ContextDelivered
    /\ delivery.body = "/run a\"b"
    /\ delivery.pr.number = 1234
    /\ \E r \in DispatchesSent :
          /\ r.target = "a.yaml"
          /\ r.event.inputs["PR-number"] = "1234"
          /\ r.event.inputs["extra-args"] = "\"a\\\"b\""

-----------------------------------------------------------------------------
(* Properties of the reactions and of the order of requests *)

\* positions of the requests that dispatch a workflow or create a check run
WorkflowRequests(reqs) ==
    Requests(reqs, "dispatch") \cup Requests(reqs, "check-run")

\* C21: in a comment or PR-lifecycle delivery that matches a trigger the
\* eyes reaction is the first request, ahead of every dispatch and check
\* run, and when it fails nothing else is evaluated, the dependency gate
\* included; the rocket reaction is requested at most once, as the last
\* request after every dispatch and check run, and only when the
\* processing returned no error, so never when the dependency gate fails
\* or the changed files cannot be listed.
C21_EyesBeforeRocketAfter ==
    TriggerDelivery =>
        LET reqs == delivery.out.reqs
            rockets == {i \in 1..Len(reqs) : reqs[i] = Call("reaction", "rocket")}
        IN  /\ Len(reqs) > 0
            /\ reqs[1] = Call("reaction", "eyes")
            /\ \A i \in 2..Len(reqs) : reqs[i] # Call("reaction", "eyes")
            /\ Failed(delivery.faults, "reaction", "eyes") =>
                  /\ reqs = <<Call("reaction", "eyes")>>
                  /\ delivery.out.err \notin GateErrors
            /\ rockets # {} =>
                  /\ rockets = {Len(reqs)}
                  /\ \A i \in WorkflowRequests(reqs) : 1 < i /\ i < Len(reqs)
                  /\ GateMet /\ ~GateQueryFailed
                  /\ ~Failed(delivery.faults, "list-files", "")
                  /\ delivery.out.err \in {"", "failed to react"}
            /\ (~GateMet \/ delivery.out.err \in GateErrors) => rockets = {}

\* both workflows of a trigger handled between the two reactions
C21_Witness ==
    /\ TriggerDelivery
    /\ Len(delivery.match.workflows) = 2
    /\ Len(delivery.out.reqs) = 4
    /\ delivery.out.reqs[1] = Call("reaction", "eyes")
    /\ delivery.out.reqs[2].op = "dispatch"
    /\ delivery.out.reqs[3].op = "check-run"
    /\ delivery.out.reqs[4] = Call("reaction", "rocket")
    /\ delivery.out.err = ""

-----------------------------------------------------------------------------
(* Properties of the filter of issue_comment events *)

\* bodies whose first character after leading white space is '/'
CommandBodies == {"/default", "  /default", "\n/nope"}

\* the event is a created comment on a PR whose body is a command
IsCommand ==
    /\ delivery.isPR
    /\ delivery.action = "created"
    /\ delivery.body \in CommandBodies

\* C22 as stated: an issue_comment delivery that is not a created comment
\* on a PR with a command body produces no forge request and returns no
\* error.
C22_OnlyCommandsHandled ==
    (delivery.kind = "issue_comment" /\ ~IsCommand) =>
        /\ delivery.out.reqs = <<>>
        /\ delivery.out.err = ""

\* C22 as the handler has it: such a delivery produces no forge request
\* and starts no rerun, and returns no error except when the event is a
\* created comment on a PR and the installation client cannot be created,
\* which the handler finds out before it looks at the body; a body with
\* white space before the '/' is handled as a command.
C22_OnlyCommandsHandledUnlessNoClient ==
    delivery.kind = "issue_comment" =>
        /\ ~IsCommand =>
              /\ delivery.out.reqs = <<>>
              /\ delivery.out.spawn = <<>>
              /\ delivery.out.err # "" =>
                    /\ delivery.isPR
                    /\ delivery.action = "created"
                    /\ Failed(delivery.faults, "new-client", "")
        /\ (IsCommand /\ delivery.faults = {}) =>
              IF delivery.match # NoMatch
              THEN Requested(delivery.out.reqs, "reaction", "eyes")
              ELSE GetVerbose(delivery.cfg) =>
                      Requested(delivery.out.reqs, "comment",
                                "Command not found")

\* a command written after two blanks is answered with the reactions
C22_Witness ==
    /\ delivery.kind = "issue_comment"
    /\ IsCommand
    /\ delivery.body = "  /default"
    /\ delivery.faults = {}
    /\ Requested(delivery.out.reqs, "reaction", "eyes")
    /\ Requested(delivery.out.reqs, "reaction", "rocket")

-----------------------------------------------------------------------------
(* Properties of the linter *)

\* the depends-on graph: an edge from each predecessor to its dependant
DependsOnGraph(c) ==
    {e \in (LintPhrases \cup {"/zz"}) \X DOMAIN c.triggers :
        \E i \in 1..Len(c.triggers[e[2]].dependsOn) :
            c.triggers[e[2]].dependsOn[i] = e[1]}

\* a walk along the edges that comes back to where it started
ClosedWalks(edges) ==
    {w \in UNION {[1..n -> Vertices(edges)] : n \in 2..4} :
        /\ w[1] = w[Len(w)]
        /\ \A i \in 1..(Len(w) - 1) : <<w[i], w[i + 1]>> \in edges}

\* C23: a configuration for which validateConfig returns no errors has an
\* acyclic depends-on graph, no trigger depending on itself included, and
\* every depends-on entry names a defined trigger.
C23_ValidatedGraphAcyclic ==
    (delivery.kind = "lint" /\ delivery.errs = {}) =>
        LET c == delivery.cfg IN
        /\ ClosedWalks(DependsOnGraph(c)) = {}
        /\ \A p \in DOMAIN c.triggers : \A i \in 1..Len(c.triggers[p].dependsOn) :
              /\ c.triggers[p].dependsOn[i] # p
              /\ c.triggers[p].dependsOn[i] \in DOMAIN c.triggers

\* a chain of three triggers passes the linter
C23_Witness ==
    /\ delivery.kind = "lint"
    /\ delivery.errs = {}
    /\ delivery.cfg.triggers["/t1"].dependsOn = <<>>
    /\ delivery.cfg.triggers["/t2"].dependsOn = <<"/t1">>
    /\ delivery.cfg.triggers["/t3"].dependsOn = <<"/t1", "/t2">>

NoDuplicates(seq) ==
    \A i, j \in 1..Len(seq) : i # j => seq[i] # seq[j]

\* the elements of seq outside S, each at its first occurrence, in order
RECURSIVE FirstOutside(_, _)
FirstOutside(seq, S) ==
    IF seq = <<>> THEN <<>>
    ELSE IF Head(seq) \in S THEN FirstOutside(Tail(seq), S)
    ELSE <<Head(seq)>> \o FirstOutside(Tail(seq), S \cup {Head(seq)})

\* C24: Merge(A, B) has the union of the triggers, a phrase of both having
\* A's workflow list followed by B's; the union of the workflows entries,
\* B's entry standing for a shared key; and as allowed teams A's teams
\* followed by those of B's teams not already present, without duplicates.
C24_Merge ==
    delivery.kind = "merge" =>
        LET a == delivery.a
            b == delivery.b
            m == delivery.cfg
        IN  /\ DOMAIN m.triggers = DOMAIN a.triggers \cup DOMAIN b.triggers
            /\ \A p \in DOMAIN m.triggers :
                  m.triggers[p].workflows =
                     (IF p \in DOMAIN a.triggers
                      THEN a.triggers[p].workflows ELSE <<>>)
                     \o (IF p \in DOMAIN b.triggers
                         THEN b.triggers[p].workflows ELSE <<>>)
            /\ DOMAIN m.workflows = DOMAIN a.workflows \cup DOMAIN b.workflows
            /\ \A w \in DOMAIN b.workflows : m.workflows[w] = b.workflows[w]
            /\ \A w \in DOMAIN a.workflows \ DOMAIN b.workflows :
                  m.workflows[w] = a.workflows[w]
            /\ m.allowedTeams =
                  a.allowedTeams
                  \o FirstOutside(b.allowedTeams, SeqToSet(a.allowedTeams))
            /\ NoDuplicates(m.allowedTeams)

\* a shared phrase, a shared workflows key and overlapping team lists
C24_Witness ==
    /\ delivery.kind = "merge"
    /\ "/t1" \in DOMAIN delivery.a.triggers \cap DOMAIN delivery.b.triggers
    /\ delivery.cfg.triggers["/t1"].workflows = <<"a.yaml", "b.yaml">>
    /\ "a.yaml" \in DOMAIN delivery.a.workflows \cap DOMAIN delivery.b.workflows
    /\ delivery.a.workflows["a.yaml"] = PathsConfig("", "^docs/")
    /\ delivery.cfg.workflows["a.yaml"] = PathsConfig("^src/", "")
    /\ delivery.a.allowedTeams = <<"core", "docs">>
    /\ delivery.b.allowedTeams = <<"docs", "ci", "core">>
    /\ delivery.cfg.allowedTeams = <<"core", "docs", "ci">>

\* the workflow of a path-gate question has an entry with only an ignore regex
IgnoreOnly ==
    /\ delivery.kind = "paths"
    /\ delivery.wf \in DOMAIN delivery.cfg.workflows
    /\ delivery.cfg.workflows[delivery.wf].pathsRegex = ""
    /\ delivery.cfg.workflows[delivery.wf].pathsIgnoreRegex # ""

OutsideIgnore(f) ==
    ~PathRegexMatch(delivery.cfg.workflows[delivery.wf].pathsIgnoreRegex, f)

ConfigFetchFailed ==
    /\ delivery.kind \in {"issue_comment", "pull_request", "workflow_run"}
    /\ Call("get-config", "") \in delivery.faults
    /\ delivery.kind = "issue_comment" =>
          /\ StringsTrimSpace(delivery.body) \in SlashBodies
          /\ CommentActor(delivery.actor) # "unsupported-bot"
    /\ delivery.kind = "workflow_run" => delivery.creators # <<>>

ConfigFailureCommented ==
    /\ delivery.out.reqs = <<Call("comment", "Failed to retrieve config file")>>
    /\ delivery.out.err # ""
    /\ delivery.out.statuses = <<>>
    /\ delivery.out.spawn = <<>>

\* C26 as stated: whenever a delivery fails to load the configuration,
\* exactly one 'Failed to retrieve config file' comment is posted and the
\* delivery fails with an error, without dispatch, check run or reaction.
C26_ConfigFailureCommented ==
    ConfigFetchFailed => ConfigFailureCommented

\* C26 amended: a comment or PR-lifecycle delivery that fails to load the
\* configuration posts exactly one 'Failed to retrieve config file' comment
\* and fails with an error, without dispatch, check run or reaction; a
\* workflow-run delivery that fails to load it ends without error and
\* without any request.
C26_ConfigFailureCommentedOnPREvents ==
    ConfigFetchFailed =>
        IF delivery.kind = "workflow_run"
        THEN /\ delivery.out.reqs = <<>>
             /\ delivery.out.err = ""
             /\ delivery.out.statuses = <<>>
             /\ delivery.out.spawn = <<>>
        ELSE ConfigFailureCommented

\* a PR-lifecycle delivery whose configuration could not be loaded
C26_Witness ==
    /\ ConfigFetchFailed
    /\ delivery.kind = "pull_request"
    /\ delivery.match # NoMatch
    /\ ConfigFailureCommented

-----------------------------------------------------------------------------
(* Properties of the decision engine, workflow by workflow *)

\* the delivery got as far as the workflow loop of the decision engine
WorkflowsReached ==
    /\ TriggerDelivery
    /\ ~Failed(delivery.faults, "reaction", "eyes")
    /\ GateMet
    /\ ~GateQueryFailed
    /\ ~Failed(delivery.faults, "list-files", "")

\* the run-history query for w answered, and the most recent run it
\* reported is completed with conclusion failure
LatestRunFailed(w) ==
    /\ ~Failed(delivery.faults, "list-runs", w)
    /\ Len(runs[w]) > 0
    /\ runs[w][1] = Run("completed", "failure")

StatusesOf(w) ==
    {i \in 1..Len(delivery.out.statuses) : delivery.out.statuses[i].name = w}

Proceeds(w) == ~LatestRunConcluded(w)

CountOf(reqs, op, w) ==
    Cardinality({i \in 1..Len(reqs) : reqs[i] = Call(op, w)})

\* C28: for a selected workflow the engine gets to and does not take for
\* already completed, the path gate decides between two actions of which
\* exactly one is attempted: when the gate is true one dispatch of W and no
\* check run; when it is false no dispatch and the marking as skipped,
\* which requests one check run (status completed, conclusion skipped, at
\* the head SHA) unless the lookup of the workflow it starts with fails.
\* No rerun is started for W.
C28_DispatchOrSkippedCheckRun ==
    WorkflowsReached =>
        \A w \in SeqToSet(delivery.match.workflows) :
            Proceeds(w) =>
                LET dispatches == CountOf(delivery.out.reqs, "dispatch", w)
                    checkRuns == CountOf(delivery.out.reqs, "check-run", w)
                IN  /\ dispatches + checkRuns <= 1
                    /\ w \notin SeqToSet(delivery.out.spawn)
                    /\ IF shouldRunWorkflow(delivery.cfg, w, delivery.files)
                       THEN dispatches = 1
                       ELSE /\ dispatches = 0
                            /\ checkRuns = 1
                                 <=> ~Failed(delivery.faults, "get-workflow", w)
                            /\ checkRuns = 0 =>
                                  \E i \in StatusesOf(w) :
                                     delivery.out.statuses[i].status
                                        = "failed to mark as skipped"

\* a.yaml was cancelled and b.yaml is still running; only documentation
\* changed, which b.yaml ignores: a.yaml is dispatched, b.yaml marked skipped
C28_Witness ==
    /\ WorkflowsReached
    /\ delivery.match.workflows = <<"a.yaml", "b.yaml">>
    /\ runs["a.yaml"] = <<Run("completed", "cancelled")>>
    /\ runs["b.yaml"] = <<Run("in_progress", "")>>
    /\ delivery.files = <<"docs/x.md">>
    /\ delivery.faults = {}
    /\ delivery.out.reqs = <<Call("reaction", "eyes"), Call("dispatch", "a.yaml"),
                             Call("check-run", "b.yaml"),
                             Call("reaction", "rocket")>>

-----------------------------------------------------------------------------
(* Properties of checkTriggerDependency *)

\* the latest run of w at the head SHA did not conclude success or skipped,
\* or w has no run there
NotPassed(w) ==
    \/ Len(runs[w]) = 0
    \/ runs[w][1].conclusion \notin {"success", "skipped"}

\* what the claim has checkTriggerDependency return for the workflows wfs,
\* every run-history query answering
ClaimedCheck(wfs) ==
    LET bad == {i \in 1..Len(wfs) : NotPassed(wfs[i])} IN
    IF bad = {} THEN Dependency(TRUE, FALSE, FALSE)
    ELSE LET k == CHOOSE i \in bad : \A j \in bad : i <= j IN
         IF Len(runs[wfs[k]]) = 0 THEN Dependency(FALSE, FALSE, FALSE)
         ELSE Dependency(FALSE, runs[wfs[k]][1].status = "in_progress", FALSE)

\* the first entry of the depends-on list whose check did not pass, 0 if none
FirstNotPassing ==
    LET S == {i \in 1..Len(delivery.checks) :
                 delivery.checks[i] # Dependency(TRUE, FALSE, FALSE)}
    IN  IF S = {} THEN 0 ELSE CHOOSE i \in S : \A j \in S : i <= j

\* C29: checkTriggerDependency examines the workflows of P in order and
\* returns (false, false) at the first one without a run, (false,
\* inProgress) at the first one whose latest run concluded neither success
\* nor skipped, inProgress being true iff that run's status is in_progress,
\* and (true, false) only when every workflow passed; the handler's error
\* for the first dependency that does not pass says it is still in
\* progress iff inProgress, and that it has not completed successfully
\* otherwise.
C29_CheckTriggerDependency ==
    (TriggerDelivery /\ delivery.kind = "issue_comment"
        /\ "checks" \in DOMAIN delivery) =>
        /\ \A i \in 1..Len(delivery.checks) :
              LET dep == delivery.match.dependsOn[i]
                  d == delivery.checks[i]
              IN  /\ (dep \in DOMAIN delivery.cfg.triggers /\ ~d.err) =>
                        d = ClaimedCheck(delivery.cfg.triggers[dep].workflows)
                  /\ d.canRun =>
                        /\ ~d.inProgress /\ ~d.err
                        /\ dep \in DOMAIN delivery.cfg.triggers
                        /\ \A w \in SeqToSet(delivery.cfg.triggers[dep].workflows) :
                              ~NotPassed(w)
        /\ LET k == FirstNotPassing IN
           IF k = 0 THEN delivery.out.err \notin GateErrors
           ELSE delivery.out.err =
                   (IF delivery.checks[k].err
                    THEN "failed to check trigger dependency"
                    ELSE IF delivery.checks[k].inProgress
                    THEN "dependency is still in progress"
                    ELSE "dependency has not completed successfully")

\* a.yaml never ran and b.yaml is running: the dependency on both is
\* decided at a.yaml and not reported as in progress
C29_Witness ==
    /\ TriggerDelivery
    /\ "checks" \in DOMAIN delivery
    /\ delivery.match.dependsOn = <<"/default">>
    /\ runs["a.yaml"] = <<>>
    /\ runs["b.yaml"] = <<Run("in_progress", "")>>
    /\ delivery.faults = {}
    /\ delivery.checks = <<Dependency(FALSE, FALSE, FALSE)>>
    /\ delivery.out.err = "dependency has not completed successfully"

\* the requests of the delivery that dispatch a workflow or create a check
\* run, in the order they were issued
RECURSIVE WorkflowRequestsOf(_)
WorkflowRequestsOf(reqs) ==
    IF reqs = <<>> THEN <<>>
    ELSE IF Head(reqs).op \in {"dispatch", "check-run"}
    THEN <<Head(reqs)>> \o WorkflowRequestsOf(Tail(reqs))
    ELSE WorkflowRequestsOf(Tail(reqs))

\* what the engine requests for w taken alone
RequestFor(w) ==
    IF LatestRunConcluded(w) THEN <<>>
    ELSE IF shouldRunWorkflow(delivery.cfg, w, delivery.files)
    THEN <<Call("dispatch", w)>>
    ELSE IF Failed(delivery.faults, "get-workflow", w) THEN <<>>
    ELSE <<Call("check-run", w)>>

RECURSIVE RequestsFor(_)
RequestsFor(wfs) ==
    IF wfs = <<>> THEN <<>>
    ELSE RequestFor(Head(wfs)) \o RequestsFor(Tail(wfs))

\* the dispatch or the marking as skipped of w failed
WorkflowFailed(w) ==
    /\ ~LatestRunConcluded(w)
    /\ IF shouldRunWorkflow(delivery.cfg, w, delivery.files)
       THEN Failed(delivery.faults, "dispatch", w)
       ELSE \/ Failed(delivery.faults, "get-workflow", w)
            \/ Failed(delivery.faults, "check-run", w)

DeclarationIndex(w) ==
    CHOOSE i \in 1..Len(delivery.match.workflows) :
        delivery.match.workflows[i] = w

\* C30: the engine processes every workflow of the matched trigger exactly
\* once and in declaration order: the dispatches and check runs of the
\* delivery are those each workflow calls for on its own, one after the
\* other; a workflow whose dispatch or marking as skipped failed gets a
\* failure status entry, the later workflows are processed all the same and
\* the delivery returns no error; the status entries name distinct
\* workflows in declaration order.
C30_EveryWorkflowOnceInOrder ==
    WorkflowsReached =>
        LET wfs == delivery.match.workflows
            st == delivery.out.statuses
        IN  /\ WorkflowRequestsOf(delivery.out.reqs) = RequestsFor(wfs)
            /\ \A i \in 1..Len(st) : st[i].name \in SeqToSet(wfs)
            /\ \A i, j \in 1..Len(st) :
                  i < j => DeclarationIndex(st[i].name)
                              < DeclarationIndex(st[j].name)
            /\ \A w \in SeqToSet(wfs) :
                  WorkflowFailed(w) <=>
                     \E i \in StatusesOf(w) :
                        st[i].status \in {"failed", "failed to mark as skipped"}
            /\ (\E w \in SeqToSet(wfs) : WorkflowFailed(w)) =>
                  delivery.out.err = ""

\* the dispatch of a.yaml fails; b.yaml, which ignores the changed
\* documentation, is marked skipped all the same and the delivery succeeds
C30_Witness ==
    /\ WorkflowsReached
    /\ delivery.match.workflows = <<"a.yaml", "b.yaml">>
    /\ delivery.files = <<"docs/x.md">>
    /\ delivery.faults = {Call("dispatch", "a.yaml")}
    /\ runs = NoRuns
    /\ delivery.out.reqs[2] = Call("dispatch", "a.yaml")
    /\ delivery.out.reqs[3] = Call("check-run", "b.yaml")
    /\ delivery.out.statuses[1] = WorkflowStatus("a.yaml", "failed")
    /\ delivery.out.err = ""

-----------------------------------------------------------------------------
(* Properties of the status entries and of the summary comment *)

SummaryComment == Call("comment", "## Workflow Status")

SummaryComments ==
    {i \in 1..Len(delivery.out.reqs) : delivery.out.reqs[i] = SummaryComment}

\* C31: a status entry is emitted for a processed workflow iff its dispatch
\* or its marking as skipped failed, or verbose and workflows-report are
\* both true; one summary comment is posted, after every dispatch and check
\* run, iff verbose and workflows-report are both true and at least one
\* status entry was emitted, and none otherwise.
C31_StatusEntriesAndSummary ==
    TriggerDelivery =>
        LET both == delivery.cfg.verbose /\ delivery.cfg.workflowsReport IN
        /\ WorkflowsReached =>
              \A w \in SeqToSet(delivery.match.workflows) :
                 /\ StatusesOf(w) # {} <=> (WorkflowFailed(w) \/ both)
                 /\ Cardinality(StatusesOf(w)) <= 1
        /\ ~WorkflowsReached => delivery.out.statuses = <<>>
        /\ Cardinality(SummaryComments)
              = (IF both /\ Len(delivery.out.statuses) > 0 THEN 1 ELSE 0)
        /\ \A i \in SummaryComments :
              \A j \in WorkflowRequests(delivery.out.reqs) : j < i

\* verbose without workflows-report: the failed dispatch of a.yaml gets its
\* status entry, b.yaml gets none and no summary is posted
C31_Witness ==
    /\ WorkflowsReached
    /\ delivery.cfg.verbose
    /\ ~delivery.cfg.workflowsReport
    /\ delivery.match.workflows = <<"a.yaml", "b.yaml">>
    /\ delivery.faults = {Call("dispatch", "a.yaml")}
    /\ runs = NoRuns
    /\ delivery.out.statuses = <<WorkflowStatus("a.yaml", "failed")>>
    /\ SummaryComments = {}

-----------------------------------------------------------------------------
(* Properties of the PR lookup *)

PullRequestLookedUp == delivery.kind = "get-pr"

\* the lookups that failed before the one that ended the loop
FailedLookups ==
    {k \in 1..Len(delivery.answers) :
        \A j \in 1..k : delivery.answers[j] = "error"}

\* C32: getPullRequest makes at most max-retry-attempts retries, waits
\* 2^(k-1) seconds after failed lookup number k (1 s, 2 s, 4 s, ...), and
\* ends with the PR at the first lookup that answers with an open PR, or
\* with an error.
C32_BackoffDoublesFromOneSecond ==
    PullRequestLookedUp =>
        LET out == delivery.out IN
        /\ out.lookups <= delivery.maxRetryAttempts + 1
        /\ \A k \in 1..Len(out.sleeps) : out.sleeps[k] = Pow2(k - 1)
        /\ Len(out.sleeps) = out.lookups - 1
        /\ out.err = "" <=> delivery.answers[out.lookups] = "open"

\* what the code does: the retries are bounded and the loop ends as
\* claimed, but the waits are 0 s, 1 s, 2 s, ...
C32_BackoffAsCoded ==
    PullRequestLookedUp =>
        LET out == delivery.out IN
        /\ out.lookups <= delivery.maxRetryAttempts + 1
        /\ out.lookups = Cardinality(FailedLookups)
                           + (IF Cardinality(FailedLookups)
                                    = Len(delivery.answers) THEN 0 ELSE 1)
        /\ Len(out.sleeps) = out.lookups - 1
        /\ \A k \in 1..Len(out.sleeps) :
              out.sleeps[k] = (IF k = 1 THEN 0 ELSE Pow2(k - 2))
        /\ out.err = "" <=> delivery.answers[out.lookups] = "open"

\* three lookups fail and the fourth finds the PR open
C32_Witness ==
    /\ PullRequestLookedUp
    /\ delivery.maxRetryAttempts = 3
    /\ delivery.answers = <<"error", "error", "error", "open">>
    /\ delivery.out = Looked(4, <<0, 1, 2>>, "")

-----------------------------------------------------------------------------
(* Properties of the rerun requests *)

\* a failure event of a workflow the lists make eligible, within the retry
\* bound, whose run and jobs the forge reports
EligibleFailureWithinBound ==
    /\ FailureDelivery
    /\ RerunEligible(delivery.cfg, WorkflowPath(delivery.wf))
    /\ delivery.runAttempt <= delivery.cfg.rerun.maxRetries
    /\ ~Failed(delivery.faults, "get-run", delivery.wf)
    /\ ~Failed(delivery.faults, "list-jobs", delivery.wf)

SomeJobFailed ==
    \E i \in 1..Len(delivery.jobs) : delivery.jobs[i].conclusion = "failure"

\* C33: on a workflow-run failure event for an eligible workflow within the
\* retry bound, exactly one rerun-failed-jobs request is issued if a job of
\* the run has conclusion failure and none if no job has; no single job is
\* rerun and no rerun is left to a sub-task.
C33_OneRerunIffJobFailed ==
    EligibleFailureWithinBound =>
        /\ CountOf(delivery.out.reqs, "rerun-failed-jobs", delivery.wf)
              = (IF SomeJobFailed THEN 1 ELSE 0)
        /\ RerunRequests(delivery.out.reqs)
              = Requests(delivery.out.reqs, "rerun-failed-jobs")
        /\ delivery.out.spawn = <<>>
        /\ subtasks = <<>>
        /\ ~SomeJobFailed => delivery.out.err = ""

\* a first attempt whose jobs all succeeded: handled without a request
C33_Witness ==
    /\ EligibleFailureWithinBound
    /\ delivery.runAttempt = 1
    /\ delivery.jobs = <<Job("build", "success")>>
    /\ delivery.faults = {}
    /\ delivery.out.reqs = <<>>
    /\ delivery.out.err = ""

-----------------------------------------------------------------------------
(* Properties of the rerun goroutines *)

HasCommitStatusStart(jobs) ==
    \E i \in 1..Len(jobs) : jobs[i].name = "Commit Status Start"

RECURSIVE RequestsOfEnded(_)
RequestsOfEnded(ended) ==
    IF ended = <<>> THEN <<>>
    ELSE Head(ended).reqs \o RequestsOfEnded(Tail(ended))

\* C34: a rerun goroutine started by the decision engine whose job listing
\* answered requests, when the run has a job named 'Commit Status Start',
\* the rerun of that job first and rerun-failed-jobs after it only if the
\* single-job rerun succeeded, and only rerun-failed-jobs when there is no
\* such job; the delivery has returned before its goroutines end, whatever
\* fails in them leaves its result as it was, and nothing else is requested
\* by them.
C34_CommitStatusStartFirst ==
    TriggerDelivery =>
        /\ \A k \in 1..Len(inflight) :
              LET e == inflight[k] IN
              /\ e.wf \in SeqToSet(delivery.out.spawn)
              /\ ~Failed(e.faults, "list-jobs", e.wf) =>
                    IF HasCommitStatusStart(e.jobs)
                    THEN /\ e.reqs[1] = Call("rerun-job", e.wf)
                         /\ e.reqs = <<Call("rerun-job", e.wf),
                                       Call("rerun-failed-jobs", e.wf)>>
                               <=> ~Failed(e.faults, "rerun-job", e.wf)
                         /\ Failed(e.faults, "rerun-job", e.wf) =>
                               e.reqs = <<Call("rerun-job", e.wf)>>
                    ELSE e.reqs = <<Call("rerun-failed-jobs", e.wf)>>
        /\ asyncReqs = RequestsOfEnded(inflight)
        /\ Len(inflight) + Len(subtasks) = Len(delivery.out.spawn)
        /\ delivery.faults = {} =>
              /\ delivery.out.err = ""
              /\ delivery.out.reqs[Len(delivery.out.reqs)]
                    = Call("reaction", "rocket")

\* the rerun of the commit-status job of a.yaml fails: the failed jobs are
\* not rerun, and the delivery had succeeded before the goroutine of b.yaml
\* even started
C34_Witness ==
    /\ TriggerDelivery
    /\ delivery.faults = {}
    /\ delivery.out.spawn = <<"a.yaml", "b.yaml">>
    /\ delivery.out.err = ""
    /\ subtasks = <<"b.yaml">>
    /\ Len(inflight) = 1
    /\ HasCommitStatusStart(inflight[1].jobs)
    /\ inflight[1].faults = {Call("rerun-job", "a.yaml")}
    /\ asyncReqs = <<Call("rerun-job", "a.yaml")>>

-----------------------------------------------------------------------------
(* Properties of the stage chainer for a workflow of several stages *)

\* every workflow of the stage has runs at the head SHA, all successful
AllRunsSucceeded(st) ==
    \A w \in SeqToSet(st.workflows) :
        /\ runs[w] # <<>>
        /\ \A i \in 1..Len(runs[w]) : runs[w][i].conclusion = "success"

\* C35: when the completed workflow belongs to several stages, every
\* matched stage all of whose workflows have succeeded gets its command
\* posted, whether or not another matched stage is complete and whether or
\* not the post of another stage's command fails.
C35_EachMatchedStageOnItsOwn ==
    (SuccessDelivery /\ StageLabelCarried
       /\ \A w \in Workflows : ~Failed(delivery.faults, "list-runs", w)) =>
        \A k \in 1..Len(delivery.cfg.stagesConfig.stages) :
            LET st == delivery.cfg.stagesConfig.stages[k] IN
            (/\ delivery.wf \in SeqToSet(st.workflows)
             /\ AllRunsSucceeded(st)) =>
                StagePosts(st) # {}

-----------------------------------------------------------------------------
(* Properties of workflow runs associated with several PRs *)

\* the creator of the i-th PR of the run passes the authorization of the
\* handler: the bot convention or the allowed teams
CreatorAllowed(i) ==
    \/ /\ StringsHasPrefix(delivery.creators[i], repositoryOwner)
       /\ StringsHasSuffix(delivery.creators[i], "[bot]")
    \/ delivery.allowed

\* C36: for a workflow run associated with several PRs whose lookups and
\* configuration request answer, the handler drops the event as
\* unauthorized only if no associated PR has an allowed creator, and the PR
\* it goes on with is one whose creator passed the authorization.
C36_DroppedOnlyIfNoCreatorAllowed ==
    (delivery.kind = "workflow_run" /\ delivery.faults = {}) =>
        /\ (\E i \in 1..Len(delivery.creators) : CreatorAllowed(i))
              => delivery.fullPR # 0
        /\ delivery.fullPR # 0 => CreatorAllowed(delivery.fullPR)

-----------------------------------------------------------------------------
(* Properties of PR-lifecycle deliveries *)

-----------------------------------------------------------------------------
(* Properties of a failed run-history query *)

\* C38: when the run-history query for a selected workflow fails, the
\* engine treats the workflow as having no prior run: no rerun is started
\* and it is not reported as already completed, and the path gate decides;
\* when the gate is true the workflow is dispatched, also when a successful
\* run of it exists at the head SHA, and when it is false it is marked as
\* skipped.
C38_QueryFailureMeansNoPriorRun ==
    WorkflowsReached =>
        \A w \in SeqToSet(delivery.match.workflows) :
            Failed(delivery.faults, "list-runs", w) =>
                /\ w \notin SeqToSet(delivery.out.spawn)
                /\ \A i \in StatusesOf(w) :
                      delivery.out.statuses[i].status # "already completed"
                /\ IF shouldRunWorkflow(delivery.cfg, w, delivery.files)
                   THEN /\ CountOf(delivery.out.reqs, "dispatch", w) = 1
                        /\ CountOf(delivery.out.reqs, "check-run", w) = 0
                   ELSE /\ CountOf(delivery.out.reqs, "dispatch", w) = 0
                        /\ CountOf(delivery.out.reqs, "check-run", w) = 1

\* a.yaml has succeeded at the head SHA, its run-history query fails and it
\* is dispatched again
C38_Witness ==
    /\ WorkflowsReached
    /\ delivery.match.workflows = <<"a.yaml", "b.yaml">>
    /\ runs["a.yaml"] # <<>>
    /\ runs["a.yaml"][1] = Run("completed", "success")
    /\ delivery.faults = {Call("list-runs", "a.yaml")}
    /\ Requested(delivery.out.reqs, "dispatch", "a.yaml")
    /\ delivery.out.err = ""

-----------------------------------------------------------------------------
(* Properties of the dependent chainer for a workflow of several           *)
(* dependencies                                                            *)

\* C39: on one workflow-run success event the dependent chainer attempts at
\* most one comment per configured trigger, however many of the trigger's
\* dependencies and of their workflows match the completed workflow and
\* whether or not the post succeeds.
C39_OnePostPerTrigger ==
    SuccessDelivery =>
        /\ \A p \in DependentTriggers(delivery.cfg) :
              Cardinality(ChainPosts(p)) <= 1
        /\ Len(delivery.out.reqs)
              <= Cardinality(DependentTriggers(delivery.cfg))
        /\ \A i \in 1..Len(delivery.out.reqs) :
              /\ delivery.out.reqs[i].op = "comment"
              /\ \E p \in DependentTriggers(delivery.cfg) : i \in ChainPosts(p)

\* a.yaml, owned by both dependencies of /deploy and of /run, succeeds; the
\* post of the /deploy comment fails; each trigger gets its one comment
C39_Witness ==
    /\ SuccessDelivery
    /\ delivery.cfg = SharedChainConfig
    /\ delivery.faults = {Call("comment", "/deploy now")}
    /\ Cardinality(ChainPosts("/deploy")) = 1
    /\ Cardinality(ChainPosts("/run")) = 1
    /\ Len(delivery.out.reqs) = 2

-----------------------------------------------------------------------------
(* Properties of deliveries for PRs that are not open *)

\* the handler got as far as the lookup of the PR
LookupReached ==
    IF delivery.kind = "issue_comment"
    THEN /\ StringsTrimSpace(delivery.body) \in SlashBodies
         /\ CommentActor(delivery.actor) # "unsupported-bot"
    ELSE delivery.action \in allowedActions

\* C40: a comment or a PR-lifecycle event on a PR whose state is not open
\* never leads to a dispatch, check run, rerun or reaction, in the delivery
\* or in a goroutine; a delivery that gets to the PR lookup fails there with
\* an error and the comment about the PR, whether or not the configuration
\* could have been loaded.
C40_NotOpenNeverActs ==
    (delivery.kind \in {"issue_comment", "pull_request"}
       /\ delivery.state # "open") =>
        /\ ~Acts(delivery.out)
        /\ delivery.out.statuses = <<>>
        /\ subtasks = <<>>
        /\ asyncReqs = <<>>
        /\ LookupReached =>
              /\ delivery.lookup.err # ""
              /\ delivery.out.err = "failed to retrieve pull request"
              /\ delivery.out.reqs
                    = <<Call("comment", "Failed to retrieve pull request")>>

\* /default is commented by a user on a closed PR whose first lookup fails
\* and whose configuration could not be loaded either: the delivery fails
\* on the PR
C40_Witness ==
    /\ delivery.kind = "issue_comment"
    /\ delivery.state = "closed"
    /\ delivery.body = "/default"
    /\ delivery.actor = "alice"
    /\ delivery.lookup.lookups = 2
    /\ delivery.lookup.err = "pull request is not open"
    /\ Call("get-config", "") \in delivery.faults
    /\ delivery.out.err = "failed to retrieve pull request"

====
